---- MODULE Spec2Model ----
(***************************************************************************)
(* A model of the F1 data collectors: the request memoization layer of     *)
(* BaseCollector, the three resource collectors, the record normalizers    *)
(* and the consolidation of F1DataCollector.collect_race_data.             *)
(*                                                                         *)
(* Python values are modelled as follows.                                  *)
(*   - None is the empty tuple; an Optional field that is present holds    *)
(*     the one-element tuple <<v>>.                                        *)
(*   - a dict is a function whose domain is the set of its keys;           *)
(*   - keyword arguments are a sequence of <<name, value>> pairs in the    *)
(*     order the caller wrote them (kwargs keep their order);              *)
(*   - a DataFrame is the sequence of its rows, each row a record;         *)
(*   - a timestamp text is [wall, zone]: the wall-clock reading in seconds *)
(*     and the zone suffix it carries ("" for none, "Z", "+00:00", ...);   *)
(*     a datetime is [wall, tz].                                           *)
(***************************************************************************)
EXTENDS Integers, Sequences, FiniteSets, TLC

VARIABLES
    api,            \* the data source: the records it holds per resource
    cache_enabled,  \* F1DataCollector.cache_enabled / BaseCollector.cache_enabled
    _cache,         \* BaseCollector._cache of each collector: cache key -> data
    reqs,           \* the requests the last operation sent to the fetch client
    ret,            \* what the last operation returned
    fetched,        \* history: the responses the last collect_race_data worked on
    memo,           \* history: per collector, the non-None responses obtained
                    \*   since its cache was last cleared, by cache key
    kw1, kw2,       \* two keyword-argument lists handed to _get_cache_key
    key1, key2,     \* the cache keys computed for them
    http,           \* OpenF1Client.session of each client constructed: whether
                    \*   it is open, and history: who called the client's close
    objs,           \* the collectors constructed: client, _owns_client
    block,          \* the `with` block of the caller and how control left it
    call            \* the OpenF1Client._make_request call in progress

vars == <<api, cache_enabled, _cache, reqs, ret, fetched, memo, kw1, kw2, key1, key2,
          http, objs, block, call>>
lifeVars == <<http, objs, block, call>>
collectorVars == <<api, cache_enabled, _cache, reqs, ret, fetched, memo>>
keyVars == <<kw1, kw2, key1, key2>>

(***************************************************************************)
(* Bounds of the model.                                                    *)
(***************************************************************************)
MaxPos == 2         \* position observations the data source holds at most
MaxParams == 2      \* keyword arguments in one _get_cache_key call at most
MaxMissing == 2     \* fields a raw record lacks (or is left with) at most

(***************************************************************************)
(* Python values.                                                          *)
(***************************************************************************)
None == << >>
Some(v) == <<v>>
PyInt(n) == [int |-> n]
PyStr(s) == [str |-> s]

\* dict.get(k, default) and dict.get(k)
Get(data, k, default) == IF k \in DOMAIN data THEN data[k] ELSE default
GetOpt(data, k) == IF k \in DOMAIN data THEN data[k] ELSE None

\* repr() of a scalar, as str() of a list of tuples prints it
Repr(v) == IF "int" \in DOMAIN v THEN ToString(v.int) ELSE "'" \o v.str \o "'"

\* A stable sort of the sequence s by the strict order Less: the element at
\* index i goes after every element that is smaller, and after every equal
\* element that came before it.
SortBy(s, Less(_, _)) ==
    LET pos(i) == 1 + Cardinality({j \in 1..Len(s) :
                        \/ Less(s[j], s[i])
                        \/ (~Less(s[i], s[j]) /\ j < i)})
    IN  [p \in 1..Len(s) |-> s[CHOOSE i \in 1..Len(s) : pos(i) = p]]

(***************************************************************************)
(* BaseCollector._get_cache_key                                            *)
(***************************************************************************)
\* Python orders the parameter names as strings; these are the names the
\* collectors use, in that order.
ParamNames == <<"country_name", "driver_number", "endpoint", "session_key",
                "session_name", "year">>
NameIndex(n) == CHOOSE i \in 1..Len(ParamNames) : ParamNames[i] = n
ItemLess(a, b) == NameIndex(a[1]) < NameIndex(b[1])

\* params.items() left in the caller's order
SortedItemsUnsorted(params) == params

\* sorted(params.items())
SortedItems(params) == SortBy(params, ItemLess)

RECURSIVE JoinItems(_)
JoinItems(items) ==
    IF Len(items) = 0 THEN ""
    ELSE "('" \o items[1][1] \o "', " \o Repr(items[1][2]) \o ")"
         \o (IF Len(items) = 1 THEN "" ELSE ", " \o JoinItems(Tail(items)))

\* str(sorted_params)
StrOfList(items) == "[" \o JoinItems(items) \o "]"

\* f"{self.__class__.__name__}:{str(sorted_params)}"
GetCacheKey(cls, params) == cls \o ":" \o StrOfList(SortedItems(params))

(***************************************************************************)
(* Timestamps: datetime.fromisoformat, datetime.isoformat, pd.to_datetime  *)
(***************************************************************************)
\* The suffixes a timestamp text of the data source can carry: none, Z, a
\* numeric offset, or "?" for trailing text that is no ISO-8601 (it holds
\* neither a '+' nor a 'Z').
Zones == {"", "Z", "+00:00", "+01:00", "-01:00", "?"}

\* An exception leaving a function in the place of its value
ValueError == [raised |-> "ValueError"]
Raised(x) == "raised" \in DOMAIN x

\* '+' in date_str
HasPlus(text) == text.zone \in {"+00:00", "+01:00"}
\* 'Z' in date_str
HasZ(text) == text.zone = "Z"
\* date_str.replace('Z', '+00:00')
ReplaceZ(text) == IF HasZ(text) THEN [text EXCEPT !.zone = "+00:00"] ELSE text
\* datetime.fromisoformat accepts a text with no suffix or a numeric offset
IsoAccepts(text) == text.zone \in {"", "+00:00", "+01:00", "-01:00"}
FromIsoFormat(text) == [wall |-> text.wall, tz |-> text.zone]
\* isoformat() leaving the UTC offset of an aware datetime out
IsoFormatNaive(dt) == [wall |-> dt.wall, zone |-> ""]
\* datetime.isoformat()
IsoFormat(dt) == [wall |-> dt.wall, zone |-> dt.tz]
\* pd.to_datetime of an ISO text (None becomes NaT, modelled as None)
ToDatetime(text) == IF text = None THEN None ELSE [wall |-> text.wall, tz |-> text.zone]

(***************************************************************************)
(* Record normalizers: Position, Driver, Session                           *)
(***************************************************************************)
\* The date with the ValueError of the fallback caught and None substituted
PositionDateLenient(date_str) ==
    IF date_str = None THEN None
    ELSE LET stripped == IF HasPlus(date_str) THEN [date_str EXCEPT !.zone = ""]
                         ELSE IF HasZ(date_str) THEN [date_str EXCEPT !.zone = ""]
                         ELSE date_str
         IN  IF IsoAccepts(stripped) THEN FromIsoFormat(stripped)
             ELSE IF IsoAccepts(ReplaceZ(date_str))
                  THEN FromIsoFormat(ReplaceZ(date_str))
             ELSE None

\* Position.from_api_data, the date: strip the suffix, parse, fall back
PositionDate(date_str) ==
    IF date_str = None THEN None
    ELSE LET stripped == IF HasPlus(date_str) THEN [date_str EXCEPT !.zone = ""]
                         ELSE IF HasZ(date_str) THEN [date_str EXCEPT !.zone = ""]
                         ELSE date_str
         IN  IF IsoAccepts(stripped) THEN FromIsoFormat(stripped)
             ELSE IF IsoAccepts(ReplaceZ(date_str))
                  THEN FromIsoFormat(ReplaceZ(date_str))
             ELSE ValueError

\* The fields of the Position built once the date is parsed
PositionFields(data, date_obj) ==
    [driver_number |-> GetOpt(data, "driver_number"),
     position      |-> GetOpt(data, "position"),
     date          |-> date_obj,
     meeting_key   |-> GetOpt(data, "meeting_key"),
     session_key   |-> GetOpt(data, "session_key"),
     lap_number    |-> GetOpt(data, "lap_number")]

\* Position.from_api_data: the Position, or the ValueError of the date
PositionFromApiData(data) ==
    IF Raised(PositionDate(GetOpt(data, "date"))) THEN ValueError
    ELSE PositionFields(data, PositionDate(GetOpt(data, "date")))

PositionToDict(p) ==
    [driver_number |-> p.driver_number,
     position      |-> p.position,
     date          |-> IF p.date # None THEN IsoFormat(p.date) ELSE None,
     meeting_key   |-> p.meeting_key,
     session_key   |-> p.session_key,
     lap_number    |-> p.lap_number]

\* The fields read with data[key] in the place of data.get(key): a KeyError
\* at a missing one
DriverFromApiDataIndexing(data) ==
    IF \E f \in {"driver_number", "first_name", "last_name", "full_name",
                 "name_acronym", "broadcast_name", "team_name", "team_colour",
                 "country_code", "headshot_url", "meeting_key", "session_key"} :
           f \notin DOMAIN data
    THEN [raised |-> "KeyError"]
    ELSE [f \in {"driver_number", "first_name", "last_name", "full_name",
                 "name_acronym", "broadcast_name", "team_name", "team_colour",
                 "country_code", "headshot_url", "meeting_key", "session_key"} |->
              data[f]]

DriverFromApiData(data) ==
    [driver_number  |-> GetOpt(data, "driver_number"),
     first_name     |-> Get(data, "first_name", ""),
     last_name      |-> Get(data, "last_name", ""),
     full_name      |-> Get(data, "full_name", ""),
     name_acronym   |-> Get(data, "name_acronym", ""),
     broadcast_name |-> Get(data, "broadcast_name", ""),
     team_name      |-> Get(data, "team_name", ""),
     team_colour    |-> Get(data, "team_colour", ""),
     country_code   |-> Get(data, "country_code", ""),
     headshot_url   |-> GetOpt(data, "headshot_url"),
     meeting_key    |-> GetOpt(data, "meeting_key"),
     session_key    |-> GetOpt(data, "session_key")]

\* Driver.to_dict: every field under its own name
DriverToDict(d) ==
    [driver_number  |-> d.driver_number,
     first_name     |-> d.first_name,
     last_name      |-> d.last_name,
     full_name      |-> d.full_name,
     name_acronym   |-> d.name_acronym,
     broadcast_name |-> d.broadcast_name,
     team_name      |-> d.team_name,
     team_colour    |-> d.team_colour,
     country_code   |-> d.country_code,
     headshot_url   |-> d.headshot_url,
     meeting_key    |-> d.meeting_key,
     session_key    |-> d.session_key]

\* Session.from_api_data.parse_date
ParseDate(date_str) ==
    IF date_str = None THEN None
    ELSE IF IsoAccepts(ReplaceZ(date_str)) THEN FromIsoFormat(ReplaceZ(date_str))
    ELSE None

SessionFromApiData(data) ==
    [session_key        |-> GetOpt(data, "session_key"),
     session_name       |-> Get(data, "session_name", ""),
     session_type       |-> Get(data, "session_type", ""),
     country_name       |-> Get(data, "country_name", ""),
     country_code       |-> Get(data, "country_code", ""),
     circuit_short_name |-> Get(data, "circuit_short_name", ""),
     location           |-> Get(data, "location", ""),
     year               |-> GetOpt(data, "year"),
     meeting_key        |-> GetOpt(data, "meeting_key"),
     date_start         |-> ParseDate(GetOpt(data, "date_start")),
     date_end           |-> ParseDate(GetOpt(data, "date_end")),
     gmt_offset         |-> GetOpt(data, "gmt_offset"),
     circuit_key        |-> GetOpt(data, "circuit_key"),
     country_key        |-> GetOpt(data, "country_key")]

SessionToDict(s) ==
    [s EXCEPT !.date_start = IF s.date_start # None THEN IsoFormat(s.date_start) ELSE None,
              !.date_end   = IF s.date_end # None THEN IsoFormat(s.date_end) ELSE None]

(***************************************************************************)
(* The fetch client and the memoization layer of BaseCollector             *)
(***************************************************************************)
Collectors == {"SessionCollector", "DriverCollector", "PositionCollector"}
Endpoints == {"sessions", "drivers", "position"}
\* The endpoints _make_api_request has a client method for
EndpointMethods == Endpoints \cup {"laps", "meetings"}

\* A keyword argument's value as the data source compares it with a field
ParamValue(v) == IF "int" \in DOMAIN v THEN v.int ELSE v.str

\* What the data source answers: the records of the resource that carry every
\* parameter's value.
Matches(rec, params) ==
    \A i \in 1..Len(params) :
        params[i][1] \in DOMAIN rec /\ rec[params[i][1]] = ParamValue(params[i][2])
\* (the source holds no laps and no meetings)
Select(source, endpoint, params) ==
    IF endpoint \in DOMAIN source
    THEN SelectSeq(source[endpoint], LAMBDA rec : Matches(rec, params))
    ELSE << >>

\* OpenF1Client.get_sessions / get_drivers / get_positions through
\* _make_request: the list the source answers, or None once the retries are
\* used up (the endpoint is down).
ClientGet(source, down, endpoint, params) ==
    IF endpoint \in down THEN None ELSE Some(Select(source, endpoint, params))

\* BaseCollector._make_api_request: the endpoint's client method, None and
\* an error in the log for an endpoint that has none.  The field reqs lists
\* the client calls made, the field logged the errors logged.
MakeApiRequest(source, down, endpoint, params) ==
    IF endpoint \notin EndpointMethods
    THEN [data |-> None, reqs |-> << >>,
          logged |-> << [level |-> "error", endpoint |-> endpoint] >>]
    ELSE [data |-> ClientGet(source, down, endpoint, params),
          reqs |-> << [endpoint |-> endpoint, params |-> params] >>,
          logged |-> << >>]

\* BaseCollector._get_from_cache
GetFromCache(cache, enabled, cache_key) ==
    IF ~enabled \/ DOMAIN cache = {} THEN None
    ELSE IF cache_key \in DOMAIN cache THEN Some(cache[cache_key]) ELSE None

\* BaseCollector._save_to_cache: `not self._cache` is true of the empty dict
SaveToCache(cache, enabled, cache_key, data) ==
    IF ~enabled \/ DOMAIN cache = {} THEN cache
    ELSE [k \in DOMAIN cache \cup {cache_key} |->
            IF k = cache_key THEN data ELSE cache[k]]

\* BaseCollector._make_cached_request, from the cache lookup on: the cached
\* data, or the answer r of _make_api_request, saved when it is not None
CachedOrRequestedSavingAll(cache, enabled, cache_key, cached_data, r) ==
    IF cached_data # None
    THEN [data |-> cached_data, cache |-> cache, reqs |-> << >>, logged |-> << >>]
    ELSE [data  |-> r.data,
          cache |-> IF ~enabled THEN cache
                    ELSE [k \in DOMAIN cache \cup {cache_key} |->
                            IF k # cache_key THEN cache[k]
                            ELSE IF r.data # None THEN r.data[1] ELSE None],
          reqs  |-> r.reqs,
          logged |-> r.logged]
CachedOrRequested(cache, enabled, cache_key, cached_data, r) ==
    IF cached_data # None
    THEN [data |-> cached_data, cache |-> cache, reqs |-> << >>, logged |-> << >>]
    ELSE [data  |-> r.data,
          cache |-> IF r.data # None
                    THEN SaveToCache(cache, enabled, cache_key, r.data[1])
                    ELSE cache,
          reqs  |-> r.reqs,
          logged |-> r.logged]

RequestWithKey(cache, enabled, cache_key, source, down, endpoint, params) ==
    CachedOrRequested(cache, enabled, cache_key,
                      GetFromCache(cache, enabled, cache_key),
                      MakeApiRequest(source, down, endpoint, params))

\* cache_key = self._get_cache_key(endpoint=endpoint, **params)
RequestKey(cls, endpoint, params) ==
    GetCacheKey(cls, << <<"endpoint", PyStr(endpoint)>> >> \o params)

\* BaseCollector._make_cached_request: [data, cache, reqs]
MakeCachedRequest(cache, enabled, cls, source, down, endpoint, params) ==
    RequestWithKey(cache, enabled, RequestKey(cls, endpoint, params),
                   source, down, endpoint, params)

\* BaseCollector.clear_cache: `if self._cache` is false of the empty dict
ClearedCache(cache) == IF DOMAIN cache = {} THEN cache ELSE << >>

\* BaseCollector.get_cache_stats: `not self._cache` is true of None and of the
\* empty dict
CacheStats(cache) ==
    IF DOMAIN cache = {}
    THEN [cache_enabled |-> FALSE]
    ELSE [cache_enabled |-> TRUE, entries_count |-> Cardinality(DOMAIN cache),
          cache_keys |-> DOMAIN cache]

\* `not data` of an Optional list: None or empty
NotData(data) == data = None \/ data[1] = << >>

(***************************************************************************)
(* The resource collectors.  Each operator returns the value the method    *)
(* returns (df, session, drivers) together with the collector's cache      *)
(* afterwards, the client calls it made and the response it worked on.     *)
(***************************************************************************)
MapSeq(s, F(_)) == [i \in 1..Len(s) |-> F(s[i])]

\* session_key=..., and driver_number=... when it is given and not zero
SessionParams(session_key, driver_number) ==
    << <<"session_key", PyInt(session_key)>> >>
    \o (IF driver_number # None /\ driver_number[1] # 0
        THEN << <<"driver_number", PyInt(driver_number[1])>> >>
        ELSE << >>)

\* pd.DataFrame([session.to_dict() for session in sessions])
SessionRow(item) == SessionToDict(SessionFromApiData(item))
SessionFrame(r) ==
    [df    |-> IF NotData(r.data) THEN << >> ELSE MapSeq(r.data[1], SessionRow),
     cache |-> r.cache, reqs |-> r.reqs, data |-> r.data, raised |-> None]

\* SessionCollector._collect_single_session
CollectSingleSession(cache, enabled, source, down, session_key) ==
    SessionFrame(MakeCachedRequest(cache, enabled, "SessionCollector", source, down,
                                   "sessions", SessionParams(session_key, None)))

\* SessionCollector._collect_sessions_by_filters
CollectSessionsByFilters(cache, enabled, source, down, filters) ==
    SessionFrame(MakeCachedRequest(cache, enabled, "SessionCollector", source, down,
                                   "sessions", filters))

\* SessionCollector.collect: a session_key that is given and not zero selects
\* the single session, anything else the search by filters
SessionCollect(cache, enabled, source, down, session_key, filters) ==
    IF session_key # None /\ session_key[1] # 0
    THEN CollectSingleSession(cache, enabled, source, down, session_key[1])
    ELSE CollectSessionsByFilters(cache, enabled, source, down, filters)

\* SessionCollector.get_session_info: the first row, rebuilt as a Session
FirstSession(c) ==
    [session |-> IF c.df = << >> THEN None ELSE Some(SessionFromApiData(c.df[1])),
     cache |-> c.cache, reqs |-> c.reqs, data |-> c.data, raised |-> None]
GetSessionInfo(cache, enabled, source, down, session_key) ==
    FirstSession(CollectSingleSession(cache, enabled, source, down, session_key))

\* pd.DataFrame([driver.to_dict() for driver in drivers])
DriverRow(item) == DriverToDict(DriverFromApiData(item))
DriverFrame(r) ==
    [df    |-> IF NotData(r.data) THEN << >> ELSE MapSeq(r.data[1], DriverRow),
     cache |-> r.cache, reqs |-> r.reqs, data |-> r.data, raised |-> None]

\* DriverCollector.collect
DriverCollect(cache, enabled, source, down, session_key, driver_number) ==
    DriverFrame(MakeCachedRequest(cache, enabled, "DriverCollector", source, down,
                                  "drivers", SessionParams(session_key, driver_number)))

\* The dict built by the loop of get_drivers_dict: a later row of a driver
\* number replaces an earlier one
LastRowOf(df, n) ==
    CHOOSE i \in 1..Len(df) :
        /\ df[i].driver_number = n
        /\ \A j \in 1..Len(df) : df[j].driver_number = n => j <= i
DriversOf(c) ==
    [drivers |-> [n \in {c.df[i].driver_number : i \in 1..Len(c.df)} |->
                    DriverFromApiData(c.df[LastRowOf(c.df, n)])],
     cache |-> c.cache, reqs |-> c.reqs, data |-> c.data, raised |-> None]

\* DriverCollector.get_drivers_dict
GetDriversDict(cache, enabled, source, down, session_key) ==
    DriversOf(DriverCollect(cache, enabled, source, down, session_key, None))

\* ', '.join(names)
RECURSIVE JoinComma(_)
JoinComma(names) ==
    IF names = << >> THEN ""
    ELSE IF Len(names) = 1 THEN names[1]
    ELSE names[1] \o ", " \o JoinComma(Tail(names))

\* Series.unique(): the values in the order of their first appearance
RECURSIVE UniqueOf(_)
UniqueOf(values) ==
    IF values = << >> THEN << >>
    ELSE LET rest == UniqueOf(SubSeq(values, 1, Len(values) - 1))
             last == values[Len(values)]
         IN  IF \E i \in 1..Len(rest) : rest[i] = last THEN rest
             ELSE Append(rest, last)

\* The columns the agg of get_teams_summary names
TeamAggColumns == {"driver_number", "driver_name", "name_acronym", "country_code"}

\* df.groupby(['team_name', 'team_colour']): the group keys, and the rows of one
TeamKeys(df) == {<<df[i].team_name, df[i].team_colour>> : i \in 1..Len(df)}
TeamGroup(df, key) ==
    SelectSeq(df, LAMBDA row : <<row.team_name, row.team_colour>> = key)

\* The aggregates of one group, under the names teams_summary.columns gives
TeamRow(key, g) ==
    [team_name       |-> key[1],
     team_colour     |-> key[2],
     driver_count    |-> Len(g),
     driver_names    |-> JoinComma([i \in 1..Len(g) |-> g[i].driver_name]),
     driver_acronyms |-> JoinComma([i \in 1..Len(g) |-> g[i].name_acronym]),
     countries       |-> JoinComma(UniqueOf([i \in 1..Len(g) |-> g[i].country_code]))]

\* get_teams_summary from the frame collect returned: the rows of the summary
\* (one per group key), or the KeyError of agg when the frame lacks a column
\* the agg names
TeamsSummaryOf(c) ==
    [value  |-> IF c.df = << >> THEN {}
                ELSE IF ~(TeamAggColumns \subseteq DOMAIN c.df[1]) THEN {}
                ELSE {TeamRow(key, TeamGroup(c.df, key)) : key \in TeamKeys(c.df)},
     cache  |-> c.cache, reqs |-> c.reqs, data |-> c.data,
     raised |-> IF c.df # << >> /\ ~(TeamAggColumns \subseteq DOMAIN c.df[1])
                THEN Some("KeyError") ELSE None]

\* DriverCollector.get_teams_summary
GetTeamsSummary(cache, enabled, source, down, session_key) ==
    TeamsSummaryOf(DriverCollect(cache, enabled, source, down, session_key, None))

\* The order of sort_values(['date', 'position'])
DatePositionLess(a, b) ==
    \/ a.date.wall < b.date.wall
    \/ (a.date.wall = b.date.wall /\ a.position < b.position)

\* One row of the positions DataFrame: to_dict, the date made a Timestamp
DatedRow(d) == [d EXCEPT !.date = ToDatetime(d.date)]
PositionRow(item) == DatedRow(PositionToDict(PositionFromApiData(item)))
\* [Position.from_api_data(item) for item in data] raises at an item
PositionsRaise(data) ==
    ~NotData(data) /\ \E i \in 1..Len(data[1]) : Raised(PositionFromApiData(data[1][i]))
\* PositionCollector.collect without `if not data`: iterating None is a
\* TypeError
PositionFrameUnchecked(r) ==
    [df    |-> IF NotData(r.data) \/ PositionsRaise(r.data) THEN << >>
               ELSE SortBy(MapSeq(r.data[1], PositionRow), DatePositionLess),
     cache |-> r.cache, reqs |-> r.reqs, data |-> r.data,
     raised |-> IF r.data = None THEN Some("TypeError")
                ELSE IF PositionsRaise(r.data) THEN Some("ValueError") ELSE None]

PositionFrame(r) ==
    [df    |-> IF NotData(r.data) \/ PositionsRaise(r.data) THEN << >>
               ELSE SortBy(MapSeq(r.data[1], PositionRow), DatePositionLess),
     cache |-> r.cache, reqs |-> r.reqs, data |-> r.data,
     raised |-> IF PositionsRaise(r.data) THEN Some("ValueError") ELSE None]

\* PositionCollector.collect
PositionCollect(cache, enabled, source, down, session_key, driver_number) ==
    PositionFrame(MakeCachedRequest(cache, enabled, "PositionCollector", source, down,
                                    "position", SessionParams(session_key, driver_number)))

(***************************************************************************)
(* The derived queries of PositionCollector.  sort_values on one column    *)
(* uses an unstable sort: rows of equal key come out in any order, so a    *)
(* query has a set of possible results.                                    *)
(***************************************************************************)
\* The orders in which n rows can come out
Perms(n) == {f \in [1..n -> 1..n] : \A i, j \in 1..n : i # j => f[i] # f[j]}

RECURSIVE SumPositions(_)
SumPositions(g) == IF g = << >> THEN 0 ELSE g[1].position + SumPositions(Tail(g))

\* mean().round(2), in hundredths (no mean of so few ranks lies halfway
\* between two hundredths)
MeanRounded(g) == (200 * SumPositions(g) + Len(g)) \div (2 * Len(g))

\* The aggregates with position_last - position_first as the change
StatsOfBackwards(n, g) ==
    [driver_number     |-> n,
     starting_position |-> g[1].position,
     ending_position   |-> g[Len(g)].position,
     position_change   |-> g[Len(g)].position - g[1].position,
     best_position     |-> CHOOSE b \in {g[i].position : i \in 1..Len(g)} :
                               \A i \in 1..Len(g) : b <= g[i].position,
     worst_position    |-> CHOOSE w \in {g[i].position : i \in 1..Len(g)} :
                               \A i \in 1..Len(g) : w >= g[i].position,
     avg_position      |-> MeanRounded(g),
     total_records     |-> Len(g),
     first_recorded    |-> g[1].date,
     last_recorded     |-> g[Len(g)].date]

\* One row of get_position_changes: the aggregates of the group g of driver n
StatsOf(n, g) ==
    [driver_number     |-> n,
     starting_position |-> g[1].position,
     ending_position   |-> g[Len(g)].position,
     position_change   |-> g[1].position - g[Len(g)].position,
     best_position     |-> CHOOSE b \in {g[i].position : i \in 1..Len(g)} :
                               \A i \in 1..Len(g) : b <= g[i].position,
     worst_position    |-> CHOOSE w \in {g[i].position : i \in 1..Len(g)} :
                               \A i \in 1..Len(g) : w >= g[i].position,
     avg_position      |-> MeanRounded(g),
     total_records     |-> Len(g),
     first_recorded    |-> g[1].date,
     last_recorded     |-> g[Len(g)].date]

\* df.groupby('driver_number').agg(...): the rows of a driver keep df's order
GroupOf(df, n) == SelectSeq(df, LAMBDA row : row.driver_number = n)
PositionStats(df) ==
    {StatsOf(n, GroupOf(df, n)) : n \in {df[i].driver_number : i \in 1..Len(df)}}

\* position_stats[result_columns].sort_values('ending_position')
SortedByEnding(stats) ==
    {r \in [1..Cardinality(stats) -> stats] :
        /\ \A i, j \in 1..Cardinality(stats) : i # j => r[i] # r[j]
        /\ \A i, j \in 1..Cardinality(stats) :
               i < j => r[i].ending_position <= r[j].ending_position}

\* PositionCollector.get_position_changes, from the frame collect returned:
\* the results it can give
PositionChanges(df) ==
    IF df = << >> THEN {<< >>} ELSE SortedByEnding(PositionStats(df))

\* leaders.sort_values('date')
SortedByDate(leaders) ==
    {[i \in 1..Len(leaders) |-> leaders[f[i]]] : f \in
        {g \in Perms(Len(leaders)) :
            \A i, j \in 1..Len(leaders) :
                i < j => leaders[g[i]].date.wall <= leaders[g[j]].date.wall}}

\* leaders['driver_number'] != leaders['driver_number'].shift(1): the first
\* row is compared with NaN, which differs from every driver number
LeaderChanged(leaders, i) ==
    i = 1 \/ leaders[i].driver_number # leaders[i - 1].driver_number

\* The date of the row after the next in the place of the next
NextChangeSkipping(leaders, i) ==
    IF i + 1 < Len(leaders) THEN Some(leaders[i + 2].date.wall) ELSE None

\* leaders['next_change'] = leaders['date'].shift(-1): NaT in the last row
NextChange(leaders, i) ==
    IF i < Len(leaders) THEN Some(leaders[i + 1].date.wall) ELSE None

\* (leaders['next_change'] - leaders['date']).dt.total_seconds()
LeadershipDuration(leaders, i) ==
    IF NextChange(leaders, i) = None THEN None
    ELSE Some(NextChange(leaders, i)[1] - leaders[i].date.wall)

\* leaders[['date', 'driver_number', 'leader_changed', 'leadership_duration']]
LeadersFrame(leaders) ==
    [i \in 1..Len(leaders) |->
        [date                |-> leaders[i].date,
         driver_number       |-> leaders[i].driver_number,
         leader_changed      |-> LeaderChanged(leaders, i),
         leadership_duration |-> LeadershipDuration(leaders, i)]]

\* df[df['position'] == 1]
LeadersOf(df) == SelectSeq(df, LAMBDA row : row.position = 1)

\* PositionCollector.get_leaders_history, from the frame collect returned:
\* the results it can give
LeadersHistory(df) ==
    IF df = << >> \/ LeadersOf(df) = << >> THEN {<< >>}
    ELSE {LeadersFrame(sorted) : sorted \in SortedByDate(LeadersOf(df))}

(***************************************************************************)
(* F1DataCollector.collect_race_data                                       *)
(***************************************************************************)
AvgLapTimeSeconds == 90

\* RowFields with the meeting's key written where the session's belongs
RowFieldsMeetingKey(session_data, driver_data, position_row) ==
    [session_key    |-> session_data.meeting_key,
     session_name   |-> session_data.session_name,
     session_type   |-> session_data.session_type,
     country_name   |-> session_data.country_name,
     circuit_name   |-> session_data.circuit_short_name,
     year           |-> session_data.year,
     session_date   |-> session_data.date_start,
     driver_number  |-> driver_data.driver_number,
     driver_name    |-> driver_data.full_name,
     driver_acronym |-> driver_data.name_acronym,
     team_name      |-> driver_data.team_name,
     team_colour    |-> driver_data.team_colour,
     country_code   |-> driver_data.country_code,
     headshot_url   |-> driver_data.headshot_url,
     position       |-> position_row.position,
     timestamp      |-> position_row.date,
     lap_number     |-> position_row.lap_number,
     meeting_key    |-> position_row.meeting_key]

\* The consolidated row of one position row whose driver is known
RowFields(session_data, driver_data, position_row) ==
    [session_key    |-> session_data.session_key,
     session_name   |-> session_data.session_name,
     session_type   |-> session_data.session_type,
     country_name   |-> session_data.country_name,
     circuit_name   |-> session_data.circuit_short_name,
     year           |-> session_data.year,
     session_date   |-> session_data.date_start,
     driver_number  |-> driver_data.driver_number,
     driver_name    |-> driver_data.full_name,
     driver_acronym |-> driver_data.name_acronym,
     team_name      |-> driver_data.team_name,
     team_colour    |-> driver_data.team_colour,
     country_code   |-> driver_data.country_code,
     headshot_url   |-> driver_data.headshot_url,
     position       |-> position_row.position,
     timestamp      |-> position_row.date,
     lap_number     |-> position_row.lap_number,
     meeting_key    |-> position_row.meeting_key]
RowData(session, driver, position_row) ==
    RowFields(SessionToDict(session), DriverToDict(driver), position_row)

\* A lookup under a key the dict never holds finds no driver
HasDriverMiskeyed(drivers, row) == FALSE

\* drivers.get(driver_number) finds a driver
HasDriver(drivers, row) == row.driver_number \in DOMAIN drivers

\* The loop leaving at the first row it consolidated
ConsolidatedDataFirstOnly(session, drivers, positions_df) ==
    [i \in 1..(IF SelectSeq(positions_df, LAMBDA row : HasDriver(drivers, row)) = << >>
               THEN 0 ELSE 1) |->
        RowData(session,
                drivers[SelectSeq(positions_df,
                                  LAMBDA row : HasDriver(drivers, row))[i].driver_number],
                SelectSeq(positions_df, LAMBDA row : HasDriver(drivers, row))[i])]

\* The loop over positions_df.iterrows(): rows without a driver are skipped
ConsolidatedData(session, drivers, positions_df) ==
    [i \in 1..Len(SelectSeq(positions_df, LAMBDA row : HasDriver(drivers, row))) |->
        RowData(session,
                drivers[SelectSeq(positions_df,
                                  LAMBDA row : HasDriver(drivers, row))[i].driver_number],
                SelectSeq(positions_df, LAMBDA row : HasDriver(drivers, row))[i])]

\* df['timestamp'].max() in the place of min()
MaxTimestamp(df) ==
    CHOOSE w \in {df[i].timestamp.wall : i \in 1..Len(df)} :
        \A j \in 1..Len(df) : w >= df[j].timestamp.wall

\* df['timestamp'].min()
MinTimestamp(df) ==
    CHOOSE w \in {df[i].timestamp.wall : i \in 1..Len(df)} :
        \A j \in 1..Len(df) : w <= df[j].timestamp.wall

\* df['seconds_from_start'] = (df['timestamp'] - session_start).dt.total_seconds()
SecondsFrom(df, session_start) ==
    [i \in 1..Len(df) |->
        df[i] @@ [seconds_from_start |-> df[i].timestamp.wall - session_start]]
WithSecondsFromStart(df) == SecondsFrom(df, MinTimestamp(df))

\* _estimate_lap_numbers without the `+ 1`
EstimateLapNumbersFromZero(df, avg_lap_time_seconds) ==
    [i \in 1..Len(df) |->
        [df[i] EXCEPT !.lap_number =
            Some(df[i].seconds_from_start \div avg_lap_time_seconds)]]

\* F1DataCollector._estimate_lap_numbers
EstimateLapNumbers(df, avg_lap_time_seconds) ==
    [i \in 1..Len(df) |->
        [df[i] EXCEPT !.lap_number =
            Some((df[i].seconds_from_start \div avg_lap_time_seconds) + 1)]]

\* The order of sort_values(['timestamp', 'position'], ascending=False)
TimestampPositionGreater(a, b) ==
    \/ a.timestamp.wall > b.timestamp.wall
    \/ (a.timestamp.wall = b.timestamp.wall /\ a.position > b.position)

\* The order of sort_values(['timestamp', 'position'])
TimestampPositionLess(a, b) ==
    \/ a.timestamp.wall < b.timestamp.wall
    \/ (a.timestamp.wall = b.timestamp.wall /\ a.position < b.position)

\* df['lap_number'].isna().any() in the place of all()
AnyLapMissing(df) == \E i \in 1..Len(df) : df[i].lap_number = None

\* df['lap_number'].isna().all()
AllLapsMissing(df) == \A i \in 1..Len(df) : df[i].lap_number = None

\* `if df['lap_number'].isna().all(): df = self._estimate_lap_numbers(df)`
WithLapNumbers(df) ==
    IF AllLapsMissing(df) THEN EstimateLapNumbers(df, AvgLapTimeSeconds) ELSE df

\* collect_race_data from `df = pd.DataFrame(consolidated_data)` to its return.
\* Every position row carries a timestamp (Position.date is a required field),
\* so the timestamp column is never all-NaT.
Finish(df) ==
    IF df = << >> THEN df
    ELSE SortBy(WithLapNumbers(WithSecondsFromStart(df)), TimestampPositionLess)

\* collect_race_data asking the three collectors before it looks at any answer
RaceDataOfEager(caches, s, d, p) ==
    [rows |-> IF s.session = None \/ DOMAIN d.drivers = {} \/ p.df = << >>
              THEN << >>
              ELSE Finish(ConsolidatedData(s.session[1], d.drivers, p.df)),
     raised |-> p.raised,
     caches |-> [caches EXCEPT !["SessionCollector"] = s.cache,
                               !["DriverCollector"] = d.cache,
                               !["PositionCollector"] = p.cache],
     reqs |-> s.reqs \o d.reqs \o p.reqs,
     fetched |-> [asked |-> {"sessions", "drivers", "position"},
                  sessions |-> s.data, drivers |-> d.data, position |-> p.data]]

\* collect_race_data without the `if not session` return: the rows are built
\* from the defaults of an absent session
RaceDataOfWithoutSessionCheck(caches, s, d, p) ==
    IF DOMAIN d.drivers = {}
    THEN [rows |-> << >>, raised |-> None,
          caches |-> [caches EXCEPT !["SessionCollector"] = s.cache,
                                    !["DriverCollector"] = d.cache],
          reqs |-> s.reqs \o d.reqs,
          fetched |-> [asked |-> {"sessions", "drivers"}, sessions |-> s.data,
                       drivers |-> d.data, position |-> None]]
    ELSE [rows |-> IF p.df = << >> THEN << >>
                   ELSE Finish(ConsolidatedData(
                            IF s.session = None THEN SessionFromApiData(<< >>)
                            ELSE s.session[1],
                            d.drivers, p.df)),
          raised |-> p.raised,
          caches |-> [caches EXCEPT !["SessionCollector"] = s.cache,
                                    !["DriverCollector"] = d.cache,
                                    !["PositionCollector"] = p.cache],
          reqs |-> s.reqs \o d.reqs \o p.reqs,
          fetched |-> [asked |-> {"sessions", "drivers", "position"},
                       sessions |-> s.data, drivers |-> d.data,
                       position |-> p.data]]

\* collect_race_data, given what the three collectors returned:
\* [rows, raised, caches, reqs, fetched]; an exception of positions.collect
\* is not caught, and no rows are returned then
RaceDataOf(caches, s, d, p) ==
    IF s.session = None
    THEN [rows |-> << >>, raised |-> None,
          caches |-> [caches EXCEPT !["SessionCollector"] = s.cache],
          reqs |-> s.reqs,
          fetched |-> [asked |-> {"sessions"}, sessions |-> s.data,
                       drivers |-> None, position |-> None]]
    ELSE IF DOMAIN d.drivers = {}
    THEN [rows |-> << >>, raised |-> None,
          caches |-> [caches EXCEPT !["SessionCollector"] = s.cache,
                                    !["DriverCollector"] = d.cache],
          reqs |-> s.reqs \o d.reqs,
          fetched |-> [asked |-> {"sessions", "drivers"}, sessions |-> s.data,
                       drivers |-> d.data, position |-> None]]
    ELSE [rows |-> IF p.df = << >> THEN << >>
                   ELSE Finish(ConsolidatedData(s.session[1], d.drivers, p.df)),
          raised |-> p.raised,
          caches |-> [caches EXCEPT !["SessionCollector"] = s.cache,
                                    !["DriverCollector"] = d.cache,
                                    !["PositionCollector"] = p.cache],
          reqs |-> s.reqs \o d.reqs \o p.reqs,
          fetched |-> [asked |-> {"sessions", "drivers", "position"},
                       sessions |-> s.data, drivers |-> d.data,
                       position |-> p.data]]

\* F1DataCollector.collect_race_data
RaceData(caches, enabled, source, down, session_key) ==
    RaceDataOf(caches,
        GetSessionInfo(caches["SessionCollector"], enabled, source, down, session_key),
        GetDriversDict(caches["DriverCollector"], enabled, source, down, session_key),
        PositionCollect(caches["PositionCollector"], enabled, source, down,
                        session_key, None))

(***************************************************************************)
(* The data source: the records it can hold                                *)
(***************************************************************************)
SessionKeys == {9165, 9158}
LiveKey == CHOOSE k \in SessionKeys : \A j \in SessionKeys : j <= k
DriverNumbers == {1, 44}
Ranks == {1, 2}
Walls == {10, 145}
Laps == {None, Some(7)}

SessionRaw(k) ==
    [session_key |-> k, session_name |-> "Race", session_type |-> "Race",
     country_name |-> "Brazil", country_code |-> "BRA",
     circuit_short_name |-> "Interlagos", location |-> "Sao Paulo",
     year |-> 2023, meeting_key |-> k - 5,
     date_start |-> [wall |-> 0, zone |-> "+00:00"],
     date_end |-> [wall |-> 7200, zone |-> "+00:00"],
     gmt_offset |-> "-03:00:00", circuit_key |-> 14, country_key |-> 10]

DriverRaw(n) ==
    [driver_number |-> n,
     first_name |-> IF n = 1 THEN "Max" ELSE "Lewis",
     last_name |-> IF n = 1 THEN "Verstappen" ELSE "Hamilton",
     full_name |-> IF n = 1 THEN "Max VERSTAPPEN" ELSE "Lewis HAMILTON",
     name_acronym |-> IF n = 1 THEN "VER" ELSE "HAM",
     broadcast_name |-> IF n = 1 THEN "M VERSTAPPEN" ELSE "L HAMILTON",
     team_name |-> IF n = 1 THEN "Red Bull Racing" ELSE "Mercedes",
     team_colour |-> IF n = 1 THEN "3671C6" ELSE "6CD3BF",
     country_code |-> IF n = 1 THEN "NED" ELSE "GBR",
     headshot_url |-> "https://example.org/headshot.png",
     meeting_key |-> LiveKey - 5, session_key |-> LiveKey]

\* A position observation; the source leaves lap_number out when it has none
PositionRaw(n, rank, wall, lap) ==
    LET base == [driver_number |-> n, position |-> rank,
                 date |-> [wall |-> wall, zone |-> "+00:00"],
                 meeting_key |-> LiveKey - 5, session_key |-> LiveKey]
    IN  IF lap = None THEN base ELSE base @@ [lap_number |-> lap]

PositionRaws ==
    {PositionRaw(n, rank, wall, lap) :
        n \in DriverNumbers, rank \in Ranks, wall \in Walls, lap \in Laps}

SeqsUpTo(S, n) == UNION {[1..m -> S] : m \in 0..n}

SessionLists == {<< >>, <<SessionRaw(LiveKey)>>}
DriverLists ==
    {ds \in SeqsUpTo({DriverRaw(n) : n \in DriverNumbers}, Cardinality(DriverNumbers)) :
        \A i, j \in 1..Len(ds) : i # j => ds[i] # ds[j]}
PositionLists == SeqsUpTo(PositionRaws, MaxPos)

Outages == {{}, {"sessions"}, {"drivers"}, {"position"}}
\* The endpoint answers, or it is down
OutageOf(endpoint) == {{}, {endpoint}}

(***************************************************************************)
(* The consolidation: F1DataCollector over a data source that may record   *)
(* new position observations between calls                                 *)
(***************************************************************************)
NoFetch == [asked |-> {}, sessions |-> None, drivers |-> None, position |-> None]
NoReturn == [op |-> "none"]

InitKeys ==
    /\ kw1 = << >> /\ kw2 = << >> /\ key1 = "" /\ key2 = ""

\* Nothing constructed, no `with` block entered, no request in progress
NoBlock == [at |-> "outside"]
NoCall == [at |-> "idle"]
InitLife ==
    /\ http = << >> /\ objs = << >> /\ block = NoBlock /\ call = NoCall

Init ==
    /\ api \in [sessions : SessionLists, drivers : DriverLists, position : PositionLists]
    /\ cache_enabled = TRUE
    /\ _cache = [c \in Collectors |-> << >>]
    /\ reqs = << >>
    /\ ret = NoReturn
    /\ fetched = NoFetch
    /\ memo = [c \in Collectors |-> << >>]
    /\ InitKeys
    /\ InitLife

\* A run obtained a non-empty response from each of the three resources: a
\* memoizing collector holds them all afterwards
Warm(f) == f.asked = Endpoints /\ \A e \in Endpoints : ~NotData(f[e])

\* The caches are warm for session_key: the call before this one consolidated
\* the same session with caching enabled and obtained every response
WarmFor(session_key) ==
    /\ ret.op = "collect_race_data"
    /\ ret.raised = None
    /\ ret.session_key = session_key
    /\ cache_enabled
    /\ Warm(fetched)

\* The state after collect_race_data returned r; `before` keeps the rows the
\* call before returned when the caches were warm
RaceDataStep(r, session_key, again) ==
    /\ _cache' = r.caches
    /\ reqs' = r.reqs
    /\ fetched' = r.fetched
    /\ ret' = [op |-> "collect_race_data", session_key |-> session_key,
               rows |-> r.rows, raised |-> r.raised, again |-> again,
               before |-> IF again THEN ret.rows ELSE << >>]

\* collector.collect_race_data(session_key), while the endpoints in `down`
\* answer no request
CollectRaceData(session_key, down) ==
    /\ RaceDataStep(RaceData(_cache, cache_enabled, api, down, session_key),
                    session_key, WarmFor(session_key))
    /\ UNCHANGED <<api, cache_enabled, memo, keyVars, lifeVars>>

\* The data source records one more position observation of the session
ApiAppend(obs) ==
    /\ Len(api.position) < MaxPos
    /\ api' = [api EXCEPT !.position = Append(@, obs)]
    /\ UNCHANGED <<cache_enabled, _cache, reqs, ret, fetched, memo, keyVars, lifeVars>>

Next ==
    \/ \E k \in SessionKeys, down \in Outages : CollectRaceData(k, down)
    \/ \E obs \in PositionRaws : ApiAppend(obs)

Spec == Init /\ [][Next]_vars

(***************************************************************************)
(* _get_cache_key on its own: two keyword-argument lists, keyed by the     *)
(* same collector                                                          *)
(***************************************************************************)
KeyItems ==
    {<<"year", PyInt(2023)>>, <<"year", PyStr("2023")>>, <<"year", PyInt(2024)>>,
     <<"country_name", PyStr("Brazil")>>, <<"country_name", PyStr("Monaco")>>,
     <<"session_key", PyInt(9165)>>}

\* Keyword arguments: Python rejects a repeated keyword
KwLists(items, n) ==
    {kw \in SeqsUpTo(items, n) :
        \A i, j \in 1..Len(kw) : i # j => kw[i][1] # kw[j][1]}

NoApi == [sessions |-> << >>, drivers |-> << >>, position |-> << >>]

InitKey ==
    /\ kw1 \in KwLists(KeyItems, MaxParams)
    /\ kw2 \in KwLists(KeyItems, MaxParams)
    /\ key1 = "" /\ key2 = ""
    /\ api = NoApi
    /\ cache_enabled = TRUE
    /\ _cache = [c \in Collectors |-> << >>]
    /\ reqs = << >>
    /\ ret = NoReturn
    /\ fetched = NoFetch
    /\ memo = [c \in Collectors |-> << >>]
    /\ InitLife

\* The collector cls computes the key of both lists
GetCacheKeys(cls) ==
    /\ key1' = GetCacheKey(cls, kw1)
    /\ key2' = GetCacheKey(cls, kw2)
    /\ UNCHANGED <<kw1, kw2, collectorVars, lifeVars>>

NextKey == \E cls \in Collectors : GetCacheKeys(cls)

SpecKey == InitKey /\ [][NextKey]_vars

(***************************************************************************)
(* The collectors on their own: collect and clear_cache of a               *)
(* SessionCollector and a PositionCollector over a source that keeps       *)
(* recording observations                                                  *)
(***************************************************************************)
FilterItems == {<<"year", PyInt(2023)>>, <<"country_name", PyStr("Brazil")>>}
FilterLists == KwLists(FilterItems, MaxParams)
LiveObs == {PositionRaw(1, 1, 10, None), PositionRaw(44, 2, 145, Some(7))}

InitCache ==
    /\ api \in [sessions : SessionLists,
                 drivers : {<<DriverRaw(1), DriverRaw(44)>>},
                 position : {<< >>}]
    /\ cache_enabled \in BOOLEAN
    /\ _cache = [c \in Collectors |-> << >>]
    /\ reqs = << >>
    /\ ret = NoReturn
    /\ fetched = NoFetch
    /\ memo = [c \in Collectors |-> << >>]
    /\ InitKeys
    /\ InitLife

\* What a memoizing collector holds after this collect: the first response
\* that was not None, per cache key, since the cache was last cleared
Memoized(m, enabled, cache_key, data) ==
    IF ~enabled \/ data = None \/ cache_key \in DOMAIN m THEN m
    ELSE [k \in DOMAIN m \cup {cache_key} |-> IF k = cache_key THEN data[1] ELSE m[k]]

\* The state after collector cls returned c from a collect keyed cache_key
CollectStep(cls, cache_key, c) ==
    /\ _cache' = [_cache EXCEPT ![cls] = c.cache]
    /\ reqs' = c.reqs
    /\ memo' = [memo EXCEPT ![cls] = Memoized(@, cache_enabled, cache_key, c.data)]
    /\ ret' = [op |-> "collect", collector |-> cls, cache_key |-> cache_key,
               df |-> c.df, data |-> c.data, raised |-> c.raised,
               after_failure |-> /\ ret.op = "collect" /\ ret.collector = cls
                                 /\ ret.cache_key = cache_key /\ ret.data = None,
               seen |-> cache_key \in DOMAIN memo[cls],
               first |-> IF cache_key \in DOMAIN memo[cls]
                         THEN memo[cls][cache_key] ELSE << >>]
    /\ UNCHANGED <<api, cache_enabled, fetched, keyVars, lifeVars>>

\* sessions.collect(**filters)
SessionCollectOp(filters, down) ==
    CollectStep("SessionCollector", RequestKey("SessionCollector", "sessions", filters),
                SessionCollect(_cache["SessionCollector"], cache_enabled, api, down,
                               None, filters))

\* positions.collect(session_key)
PositionCollectOp(session_key, down) ==
    CollectStep("PositionCollector",
                RequestKey("PositionCollector", "position",
                           SessionParams(session_key, None)),
                PositionCollect(_cache["PositionCollector"], cache_enabled, api, down,
                                session_key, None))

\* collector.clear_cache()
ClearCache(cls) ==
    /\ _cache' = [_cache EXCEPT ![cls] = ClearedCache(@)]
    /\ memo' = [memo EXCEPT ![cls] = << >>]
    /\ reqs' = << >>
    /\ ret' = [op |-> "clear_cache", collector |-> cls]
    /\ UNCHANGED <<api, cache_enabled, fetched, keyVars, lifeVars>>

\* collector.get_cache_stats()
GetCacheStatsOp(cls) ==
    /\ ret' = [op |-> "get_cache_stats", collector |-> cls,
               stats |-> CacheStats(_cache[cls])]
    /\ reqs' = << >>
    /\ UNCHANGED <<api, cache_enabled, _cache, fetched, memo, keyVars, lifeVars>>

\* Resource names handed to the dispatch: one it has a method for and one it
\* has none for
DispatchNames == {"laps", "car_data"}

\* collector._make_cached_request(endpoint, session_key=session_key)
DispatchStep(cls, endpoint, cache_key, c) ==
    /\ _cache' = [_cache EXCEPT ![cls] = c.cache]
    /\ reqs' = c.reqs
    /\ memo' = [memo EXCEPT ![cls] = Memoized(@, cache_enabled, cache_key, c.data)]
    /\ ret' = [op |-> "_make_cached_request", collector |-> cls,
               endpoint |-> endpoint, cache_key |-> cache_key, data |-> c.data,
               logged |-> c.logged, raised |-> None,
               cache_before |-> _cache[cls]]
    /\ UNCHANGED <<api, cache_enabled, fetched, keyVars, lifeVars>>
MakeCachedRequestOp(cls, endpoint, session_key, down) ==
    DispatchStep(cls, endpoint,
                 RequestKey(cls, endpoint, SessionParams(session_key, None)),
                 MakeCachedRequest(_cache[cls], cache_enabled, cls, api, down,
                                   endpoint, SessionParams(session_key, None)))

NextCache ==
    \/ \E cls \in {"SessionCollector", "PositionCollector"} : GetCacheStatsOp(cls)
    \/ \E endpoint \in DispatchNames : \E down \in OutageOf(endpoint) :
          MakeCachedRequestOp("PositionCollector", endpoint, LiveKey, down)
    \/ \E filters \in FilterLists, down \in Outages : SessionCollectOp(filters, down)
    \/ \E down \in Outages : PositionCollectOp(LiveKey, down)
    \/ \E cls \in {"SessionCollector", "PositionCollector"} : ClearCache(cls)
    \/ \E obs \in LiveObs : ApiAppend(obs)

SpecCache == InitCache /\ [][NextCache]_vars

(***************************************************************************)
(* C1: with caching enabled, after a collect whose parameters produced a   *)
(* non-empty response, every later collect with the same parameters on the *)
(* same collector (no clear_cache in between) returns that response and    *)
(* sends nothing to the fetch client.                                      *)
(***************************************************************************)
C1_CacheHit ==
    (ret.op = "collect" /\ cache_enabled /\ ret.seen /\ ret.first # << >>)
        => (reqs = << >> /\ ret.data = Some(ret.first))

(***************************************************************************)
(* C2: the cache key does not depend on the order the parameters are       *)
(* written in, and parameter mappings that differ in a name or a value get *)
(* different keys: the keys of two lists are equal exactly when the lists  *)
(* hold the same name-value pairs.                                         *)
(***************************************************************************)
AsDict(kw) == {kw[i] : i \in 1..Len(kw)}

C2_KeyOfMapping ==
    key1 # "" => ((AsDict(kw1) = AsDict(kw2)) <=> (key1 = key2))

C2_Witness ==
    /\ key1 # "" /\ key1 = key2
    /\ Len(kw1) = 2 /\ kw1 # kw2 /\ AsDict(kw1) = AsDict(kw2)
    /\ kw1[1][1] = "year" /\ kw1[2][1] = "country_name"

(***************************************************************************)
(* The queries of the three collectors, built without caching, over the    *)
(* position observations of one session                                    *)
(***************************************************************************)
MaxObs == 3
\* Observations of the drivers 1 and 44: both lead at some time (at 145 both
\* are recorded first), 44 climbs from fifth to second, 1 falls to second
QueryObs ==
    {PositionRaw(1, 1, 10, None), PositionRaw(1, 1, 145, None),
     PositionRaw(44, 1, 145, None), PositionRaw(44, 1, 200, None),
     PositionRaw(44, 5, 10, None), PositionRaw(44, 2, 200, None),
     PositionRaw(1, 2, 200, None)}

InitQuery ==
    /\ api \in [sessions : {<<SessionRaw(LiveKey)>>},
                 drivers : {<<DriverRaw(1), DriverRaw(44)>>},
                 position : SeqsUpTo(QueryObs, MaxObs)]
    /\ cache_enabled = FALSE
    /\ _cache = [c \in Collectors |-> << >>]
    /\ reqs = << >>
    /\ ret = NoReturn
    /\ fetched = NoFetch
    /\ memo = [c \in Collectors |-> << >>]
    /\ InitKeys
    /\ InitLife

\* The state after the query op of collector cls returned value (or raised),
\* c being what the collect it is built on gave
QueryStep(cls, op, cache_key, c, value) ==
    /\ _cache' = [_cache EXCEPT ![cls] = c.cache]
    /\ reqs' = c.reqs
    /\ memo' = [memo EXCEPT ![cls] = Memoized(@, cache_enabled, cache_key, c.data)]
    /\ ret' = [op |-> op, collector |-> cls, value |-> value, data |-> c.data,
               raised |-> c.raised]
    /\ UNCHANGED <<api, cache_enabled, fetched, keyVars, lifeVars>>

\* sessions.collect(session_key)
SessionCollectKeyOp(session_key, down) ==
    CollectStep("SessionCollector",
                RequestKey("SessionCollector", "sessions",
                           SessionParams(session_key, None)),
                SessionCollect(_cache["SessionCollector"], cache_enabled, api, down,
                               Some(session_key), << >>))

\* drivers.collect(session_key)
DriverCollectOp(session_key, down) ==
    CollectStep("DriverCollector",
                RequestKey("DriverCollector", "drivers",
                           SessionParams(session_key, None)),
                DriverCollect(_cache["DriverCollector"], cache_enabled, api, down,
                              session_key, None))

\* sessions.get_session_info(session_key)
SessionInfoStep(session_key, c) ==
    QueryStep("SessionCollector", "get_session_info",
              RequestKey("SessionCollector", "sessions",
                         SessionParams(session_key, None)),
              c, c.session)
GetSessionInfoOp(session_key, down) ==
    SessionInfoStep(session_key,
                    GetSessionInfo(_cache["SessionCollector"], cache_enabled, api,
                                   down, session_key))

\* drivers.get_drivers_dict(session_key)
DriversDictStep(session_key, c) ==
    QueryStep("DriverCollector", "get_drivers_dict",
              RequestKey("DriverCollector", "drivers",
                         SessionParams(session_key, None)),
              c, c.drivers)
GetDriversDictOp(session_key, down) ==
    DriversDictStep(session_key,
                    GetDriversDict(_cache["DriverCollector"], cache_enabled, api,
                                   down, session_key))

\* drivers.get_teams_summary(session_key)
TeamsSummaryStep(session_key, c) ==
    QueryStep("DriverCollector", "get_teams_summary",
              RequestKey("DriverCollector", "drivers",
                         SessionParams(session_key, None)),
              c, c.value)
GetTeamsSummaryOp(session_key, down) ==
    TeamsSummaryStep(session_key,
                     GetTeamsSummary(_cache["DriverCollector"], cache_enabled, api,
                                     down, session_key))

\* positions.get_position_changes(session_key)
PositionChangesStep(session_key, c) ==
    \E value \in PositionChanges(c.df) :
        QueryStep("PositionCollector", "get_position_changes",
                  RequestKey("PositionCollector", "position",
                             SessionParams(session_key, None)),
                  c, value)
GetPositionChangesOp(session_key, down) ==
    PositionChangesStep(session_key,
                        PositionCollect(_cache["PositionCollector"], cache_enabled,
                                        api, down, session_key, None))

\* positions.get_leaders_history(session_key)
LeadersHistoryStep(session_key, c) ==
    \E value \in LeadersHistory(c.df) :
        QueryStep("PositionCollector", "get_leaders_history",
                  RequestKey("PositionCollector", "position",
                             SessionParams(session_key, None)),
                  c, value)
GetLeadersHistoryOp(session_key, down) ==
    LeadersHistoryStep(session_key,
                       PositionCollect(_cache["PositionCollector"], cache_enabled,
                                       api, down, session_key, None))

\* The methods a PositionCollector answers to: its own and BaseCollector's
PositionCollectorMethods ==
    {"collect", "get_positions_by_lap", "get_position_changes",
     "get_leaders_history", "get_position_at_time",
     "clear_cache", "get_cache_stats", "close"}

\* positions.get_consistency_analysis(session_key), as the modular example
\* calls it: the attribute lookup fails before anything is requested
GetConsistencyAnalysisOp(session_key) ==
    /\ "get_consistency_analysis" \notin PositionCollectorMethods
    /\ reqs' = << >>
    /\ ret' = [op |-> "get_consistency_analysis", collector |-> "PositionCollector",
               session_key |-> session_key, value |-> << >>, data |-> None,
               raised |-> Some("AttributeError")]
    /\ UNCHANGED <<api, cache_enabled, _cache, fetched, memo, keyVars, lifeVars>>

NextQuery ==
    \/ \E session_key \in SessionKeys : GetConsistencyAnalysisOp(session_key)
    \/ \E session_key \in SessionKeys, down \in OutageOf("sessions") :
        \/ SessionCollectKeyOp(session_key, down)
        \/ GetSessionInfoOp(session_key, down)
    \/ \E session_key \in SessionKeys, down \in OutageOf("drivers") :
        \/ DriverCollectOp(session_key, down)
        \/ GetDriversDictOp(session_key, down)
        \/ GetTeamsSummaryOp(session_key, down)
    \/ \E session_key \in SessionKeys, down \in OutageOf("position") :
        \/ PositionCollectOp(session_key, down)
        \/ GetPositionChangesOp(session_key, down)
        \/ GetLeadersHistoryOp(session_key, down)

SpecQuery == InitQuery /\ [][NextQuery]_vars

(***************************************************************************)
(* The record normalizers on their own, and the collectors over position   *)
(* records whose timestamp text may be malformed                           *)
(***************************************************************************)
\* Wall-clock times one hour apart, for timestamp texts in every zone form
NormWalls == {0, 3600}

\* A raw position record whose date is the text of wall in the form zone, or
\* one that carries no date
NormPositionRaw(dated, wall, zone) ==
    IF dated
    THEN [driver_number |-> 1, position |-> 1,
          date |-> [wall |-> wall, zone |-> zone],
          meeting_key |-> LiveKey - 5, session_key |-> LiveKey]
    ELSE [driver_number |-> 1, position |-> 1, session_key |-> LiveKey]

\* A raw session record with the date `field` in the form zone, or one that
\* carries the key and the year only
NormSessionRaw(complete, field, zone) ==
    IF complete
    THEN [SessionRaw(LiveKey) EXCEPT ![field] = [wall |-> @.wall, zone |-> zone]]
    ELSE [session_key |-> LiveKey, year |-> 2023]

\* A raw driver record, complete or with the numbers only
NormDriverRaw(complete, n) ==
    IF complete THEN DriverRaw(n)
    ELSE [driver_number |-> n, session_key |-> LiveKey]

\* The position records the source holds for the collectors: one in each
\* form that fromisoformat does not accept as it is (a Z suffix, a malformed
\* text)
NormObs ==
    {[PositionRaw(1, 1, 10, None) EXCEPT !.date = [wall |-> 10, zone |-> z]] :
        z \in {z \in Zones : ~IsoAccepts([wall |-> 10, zone |-> z])}}

InitNorm ==
    /\ api \in [sessions : {<<SessionRaw(LiveKey)>>},
                 drivers : {<<DriverRaw(1), DriverRaw(44)>>},
                 position : SeqsUpTo(NormObs, MaxPos)]
    /\ cache_enabled = TRUE
    /\ _cache = [c \in Collectors |-> << >>]
    /\ reqs = << >>
    /\ ret = NoReturn
    /\ fetched = NoFetch
    /\ memo = [c \in Collectors |-> << >>]
    /\ InitKeys
    /\ InitLife

\* What a call cls.from_api_data(raw) leaves to read: the value (or what it
\* raised), `back` being from_api_data(value.to_dict()), and `prev`, the call
\* before it when that was one of the same class
NormReturn(cls, raw, value, back) ==
    [op |-> "from_api_data", cls |-> cls, raw |-> raw,
     raised |-> IF Raised(value) THEN Some(value.raised) ELSE None,
     value |-> IF Raised(value) THEN None ELSE Some(value),
     back |-> IF Raised(value) THEN None ELSE Some(back),
     prev |-> IF ret.op = "from_api_data" /\ ret.cls = cls
              THEN Some([raw |-> ret.raw, value |-> ret.value])
              ELSE None]

\* from_api_data(p.to_dict()) of the Position p, nothing when p was not built
PositionBack(p) ==
    IF Raised(p) THEN None ELSE PositionFromApiData(PositionToDict(p))

\* Position.from_api_data of a raw record, then from_api_data of its to_dict()
PositionFromApiDataOp(dated, wall, zone) ==
    /\ ret' = NormReturn("Position", NormPositionRaw(dated, wall, zone),
                         PositionFromApiData(NormPositionRaw(dated, wall, zone)),
                         PositionBack(PositionFromApiData(
                             NormPositionRaw(dated, wall, zone))))
    /\ UNCHANGED <<api, cache_enabled, _cache, reqs, fetched, memo, keyVars, lifeVars>>

\* Session.from_api_data of a raw record, then from_api_data of its to_dict()
SessionFromApiDataOp(complete, field, zone) ==
    /\ ret' = NormReturn("Session", NormSessionRaw(complete, field, zone),
                         SessionFromApiData(NormSessionRaw(complete, field, zone)),
                         SessionFromApiData(SessionToDict(SessionFromApiData(
                             NormSessionRaw(complete, field, zone)))))
    /\ UNCHANGED <<api, cache_enabled, _cache, reqs, fetched, memo, keyVars, lifeVars>>

\* Driver.from_api_data of a raw record, then from_api_data of its to_dict()
DriverFromApiDataOp(complete, n) ==
    /\ ret' = NormReturn("Driver", NormDriverRaw(complete, n),
                         DriverFromApiData(NormDriverRaw(complete, n)),
                         DriverFromApiData(DriverToDict(DriverFromApiData(
                             NormDriverRaw(complete, n)))))
    /\ UNCHANGED <<api, cache_enabled, _cache, reqs, fetched, memo, keyVars, lifeVars>>

NextNorm ==
    \/ \E dated \in BOOLEAN, wall \in NormWalls, zone \in Zones :
        PositionFromApiDataOp(dated, wall, zone)
    \/ \E complete \in BOOLEAN, field \in {"date_start", "date_end"}, zone \in Zones :
        SessionFromApiDataOp(complete, field, zone)
    \/ \E complete \in BOOLEAN, n \in DriverNumbers :
        DriverFromApiDataOp(complete, n)
    \/ \E down \in OutageOf("position") : PositionCollectOp(LiveKey, down)
    \/ \E down \in OutageOf("position") : CollectRaceData(LiveKey, down)

SpecNorm == InitNorm /\ [][NextNorm]_vars

(***************************************************************************)
Called == ret.op = "collect_race_data" /\ ret.raised = None
Rows == IF Called THEN ret.rows ELSE << >>
ListOf(data) == IF data = None THEN << >> ELSE data[1]
FetchedSessions == ListOf(fetched.sessions)
FetchedDrivers == ListOf(fetched.drivers)
FetchedPositions == ListOf(fetched.position)
FetchedDriverNumbers == {FetchedDrivers[i].driver_number : i \in 1..Len(FetchedDrivers)}
\* The observations of the source whose driver_number is one of a fetched driver
Matched(o) == o.driver_number \in FetchedDriverNumbers
MatchedPositions == SelectSeq(FetchedPositions, Matched)
\* An observation as the source gave it, and the same reading of an output row
Obs(o) == [driver_number |-> o.driver_number, position |-> o.position,
           wall |-> o.date.wall, meeting_key |-> o.meeting_key]
RowObs(r) == [driver_number |-> r.driver_number, position |-> r.position,
              wall |-> r.timestamp.wall, meeting_key |-> r.meeting_key]
ObsLap(o) == [obs |-> Obs(o), lap |-> GetOpt(o, "lap_number")]
RowObsLap(r) == [obs |-> RowObs(r), lap |-> r.lap_number]
Count(seq, P(_)) == Cardinality({i \in 1..Len(seq) : P(seq[i])})
HasLap(o) == GetOpt(o, "lap_number") # None
EarliestWall(seq) ==
    CHOOSE w \in {seq[i].date.wall : i \in 1..Len(seq)} :
        \A j \in 1..Len(seq) : w <= seq[j].date.wall

(***************************************************************************)
(* C3: two collect_race_data calls with the same session identifier, the   *)
(* second with warm caches, return identical record sets.                  *)
(***************************************************************************)
C3_Idempotent == (Called /\ ret.again) => ret.rows = ret.before

(***************************************************************************)
(* C4: when the source returns a session, at least one driver and at least *)
(* one position record, collect_race_data returns a non-empty record set.  *)
(***************************************************************************)
C4_NonEmptyOriginal ==
    (Called /\ FetchedSessions # << >> /\ FetchedDrivers # << >>
            /\ FetchedPositions # << >>)
        => Rows # << >>

\* C4 as amended: ... and at least one position record whose driver_number is
\* that of a fetched driver, the record set returned is non-empty.
C4_NonEmptyWhenMatched ==
    (Called /\ FetchedSessions # << >> /\ FetchedDrivers # << >>
            /\ MatchedPositions # << >>)
        => Rows # << >>

C4_Witness ==
    /\ Called /\ Rows # << >>
    /\ Len(MatchedPositions) < Len(FetchedPositions)

(***************************************************************************)
(* C5: every row returned by collect_race_data(k) has the driver_number of *)
(* a driver fetched for the session, and session_key = k.                  *)
(***************************************************************************)
C5_RowsOfSessionAndDrivers ==
    \A i \in 1..Len(Rows) :
        /\ Rows[i].driver_number \in FetchedDriverNumbers
        /\ Rows[i].session_key = ret.session_key

C5_Witness ==
    /\ Called /\ Len(Rows) >= 1
    /\ Len(MatchedPositions) < Len(FetchedPositions)
    /\ Cardinality(FetchedDriverNumbers) = 1

(***************************************************************************)
(* C6: the record set holds exactly one row for each fetched position      *)
(* observation that has a matching driver, and no row with the             *)
(* driver_number of an observation that has none.                          *)
(***************************************************************************)
C6_OneRowPerMatchedObservation ==
    Called =>
        /\ Len(Rows) = Len(MatchedPositions)
        /\ \A i \in 1..Len(FetchedPositions) :
            LET o == FetchedPositions[i]
            IN  IF Matched(o)
                THEN Count(Rows, LAMBDA r : RowObs(r) = Obs(o))
                     = Count(MatchedPositions, LAMBDA q : Obs(q) = Obs(o))
                ELSE Count(Rows, LAMBDA r : r.driver_number = o.driver_number) = 0

C6_Witness ==
    /\ Called /\ Len(Rows) = 1
    /\ Len(FetchedPositions) = 2
    /\ ~Matched(FetchedPositions[1]) /\ Matched(FetchedPositions[2])

(***************************************************************************)
(* C7: if any position observation fetched for the session carries a lap   *)
(* number, no estimation is applied: every row has the lap number its      *)
(* observation carried (null where it had none).                           *)
(***************************************************************************)
RowsKeepLaps ==
    /\ Len(Rows) = Len(MatchedPositions)
    /\ \A i \in 1..Len(MatchedPositions) :
        LET o == MatchedPositions[i]
        IN  Count(Rows, LAMBDA r : RowObsLap(r) = ObsLap(o))
            = Count(MatchedPositions, LAMBDA q : ObsLap(q) = ObsLap(o))

C10_Sorted ==
    \A i \in 1..(Len(Rows) - 1) :
        \/ Rows[i].timestamp.wall < Rows[i + 1].timestamp.wall
        \/ /\ Rows[i].timestamp.wall = Rows[i + 1].timestamp.wall
           /\ Rows[i].position <= Rows[i + 1].position

C10_Witness ==
    /\ Called /\ Len(Rows) = 2
    /\ Rows[1].timestamp.wall = Rows[2].timestamp.wall
    /\ Rows[1].position < Rows[2].position
    /\ Obs(FetchedPositions[1]) = RowObs(Rows[2])

(***************************************************************************)
(* C11: collect_race_data returns an empty record set, without raising,    *)
(* whenever the session is absent, or the session's driver set is empty,   *)
(* or its position set is empty.                                           *)
(***************************************************************************)
C11_EmptyWithoutRaising ==
    (ret.op = "collect_race_data"
        /\ (FetchedSessions = << >> \/ FetchedDrivers = << >>
                \/ FetchedPositions = << >>))
        => (ret.raised = None /\ ret.rows = << >>)

C11_Witness ==
    /\ ret.op = "collect_race_data" /\ ret.raised = None /\ ret.rows = << >>
    /\ FetchedSessions # << >> /\ FetchedDrivers # << >>
    /\ fetched.position = Some(<< >>)

(***************************************************************************)
(* Reading the last query of a collector                                   *)
(***************************************************************************)
QueryOps == {"collect", "get_session_info", "get_drivers_dict",
             "get_position_changes", "get_leaders_history"}
Leaders == IF ret.op = "get_leaders_history" THEN ret.value ELSE << >>
Changes == IF ret.op = "get_position_changes" THEN ret.value ELSE << >>
\* The observations the last query worked on, and those of one driver
Answered == IF ret.op \in QueryOps THEN ListOf(ret.data) ELSE << >>
ObservedDrivers == {Answered[i].driver_number : i \in 1..Len(Answered)}
ObsOf(n) == SelectSeq(Answered, LAMBDA o : o.driver_number = n)
\* The ranks of the observations of driver n that no other of its
\* observations precedes, and of those none follows
RanksAtFirst(n) ==
    {ObsOf(n)[i].position : i \in
        {i \in 1..Len(ObsOf(n)) :
            \A j \in 1..Len(ObsOf(n)) : ObsOf(n)[i].date.wall <= ObsOf(n)[j].date.wall}}
RanksAtLast(n) ==
    {ObsOf(n)[i].position : i \in
        {i \in 1..Len(ObsOf(n)) :
            \A j \in 1..Len(ObsOf(n)) : ObsOf(n)[i].date.wall >= ObsOf(n)[j].date.wall}}

(***************************************************************************)
(* C12: an empty or a None response makes collect of each collector return *)
(* an empty result set, and get_session_info, get_drivers_dict,            *)
(* get_position_changes and get_leaders_history return an empty or absent  *)
(* result; nothing is raised.                                              *)
(***************************************************************************)
C12_NoDataNoError ==
    (ret.op \in QueryOps /\ NotData(ret.data)) =>
        /\ ret.raised = None
        /\ IF ret.op = "collect" THEN ret.df = << >> ELSE ret.value = << >>

C12_Witness ==
    /\ ret.op = "get_leaders_history" /\ ret.data = None
    /\ ret.raised = None /\ ret.value = << >>
    /\ api.position # << >>

(***************************************************************************)
(* C13: in get_leaders_history, leader_changed of a row is true exactly    *)
(* when its driver differs from the driver of the P1 row right before it;  *)
(* the first row, which has none before it, is not a change.               *)
(***************************************************************************)
C13_LeaderChanged ==
    \A i \in 1..Len(Leaders) :
        Leaders[i].leader_changed
            <=> (i > 1 /\ Leaders[i].driver_number # Leaders[i - 1].driver_number)

(***************************************************************************)
(* C14: in get_leaders_history, leadership_duration of row i is the        *)
(* timestamp of the next later row whose leader_changed is true minus the  *)
(* timestamp of row i, and the last row has a null duration.               *)
(***************************************************************************)
ChangesAfter(i) == {j \in (i + 1)..Len(Leaders) : Leaders[j].leader_changed}
NextChangeAfter(i) == CHOOSE j \in ChangesAfter(i) : \A k \in ChangesAfter(i) : j <= k

C14_DurationToNextChange ==
    \A i \in 1..Len(Leaders) :
        /\ ChangesAfter(i) # {} =>
              Leaders[i].leadership_duration
                = Some(Leaders[NextChangeAfter(i)].date.wall - Leaders[i].date.wall)
        /\ i = Len(Leaders) => Leaders[i].leadership_duration = None

(***************************************************************************)
(* C15: in get_leaders_history, leadership_duration of every row but the   *)
(* last is the timestamp of the P1 row right after it minus its own, never *)
(* negative, and only the last row has a null duration.                    *)
(***************************************************************************)
C15_DurationToNextRow ==
    \A i \in 1..Len(Leaders) :
        IF i < Len(Leaders)
        THEN /\ Leaders[i].leadership_duration
                   = Some(Leaders[i + 1].date.wall - Leaders[i].date.wall)
             /\ Leaders[i].leadership_duration[1] >= 0
        ELSE Leaders[i].leadership_duration = None

C15_Witness ==
    /\ Len(Leaders) = 3
    /\ Leaders[1].driver_number = 1 /\ Leaders[2].driver_number = 1
    /\ Leaders[3].driver_number = 44
    /\ Leaders[1].leadership_duration = Some(135)
    /\ Leaders[2].leadership_duration = Some(55)

(***************************************************************************)
(* C16: get_position_changes returns one row per driver that has a         *)
(* position observation, with position_change = starting_position -        *)
(* ending_position, the starting and the ending position being the ranks   *)
(* of the driver's chronologically first and last observation, the rows    *)
(* in ascending order of ending_position.                                  *)
(***************************************************************************)
C16_PositionChanges ==
    ret.op = "get_position_changes" =>
        /\ Len(Changes) = Cardinality(ObservedDrivers)
        /\ {Changes[i].driver_number : i \in 1..Len(Changes)} = ObservedDrivers
        /\ \A i \in 1..Len(Changes) :
            /\ Changes[i].position_change
                 = Changes[i].starting_position - Changes[i].ending_position
            /\ Changes[i].starting_position \in RanksAtFirst(Changes[i].driver_number)
            /\ Changes[i].ending_position \in RanksAtLast(Changes[i].driver_number)
        /\ \A i \in 1..(Len(Changes) - 1) :
            Changes[i].ending_position <= Changes[i + 1].ending_position

C16_Witness ==
    /\ Len(Changes) = 2
    /\ Changes[1].driver_number = 1 /\ Changes[1].position_change = 0
    /\ Changes[2].driver_number = 44 /\ Changes[2].starting_position = 5
    /\ Changes[2].ending_position = 2 /\ Changes[2].position_change = 3

(***************************************************************************)
(* The record normalizers over raw records that lack fields: the source    *)
(* holds one record of one resource                                        *)
(***************************************************************************)
\* The fields of the dataclasses declared str, and those declared Optional
StringFields ==
    [Session  |-> {"session_name", "session_type", "country_name", "country_code",
                   "circuit_short_name", "location"},
     Driver   |-> {"first_name", "last_name", "full_name", "name_acronym",
                   "broadcast_name", "team_name", "team_colour", "country_code"},
     Position |-> {}]
OptionalFields ==
    [Session  |-> {"date_start", "date_end", "gmt_offset", "circuit_key",
                   "country_key"},
     Driver   |-> {"headshot_url", "meeting_key", "session_key"},
     Position |-> {"lap_number"}]

\* The sets of fields a raw record keeps of the fields `all`: all but a few,
\* or a few only
KeptFields(all) ==
    {keep \in SUBSET all :
        Cardinality(all \ keep) <= MaxMissing \/ Cardinality(keep) <= MaxMissing}
\* The record the source sends when it has the fields `keep` only
Restrict(rec, keep) == [f \in keep |-> rec[f]]
PartialRaws(rec) == {Restrict(rec, keep) : keep \in KeptFields(DOMAIN rec)}

InitFields ==
    /\ api \in {[NoApi EXCEPT !.sessions = <<raw>>] :
                    raw \in PartialRaws(SessionRaw(LiveKey))}
          \cup {[NoApi EXCEPT !.drivers = <<raw>>] :
                    raw \in PartialRaws(DriverRaw(44))}
          \cup {[NoApi EXCEPT !.position = <<raw>>] :
                    raw \in PartialRaws(PositionRaw(44, 2, 145, Some(7)))}
    /\ cache_enabled = TRUE
    /\ _cache = [c \in Collectors |-> << >>]
    /\ reqs = << >>
    /\ ret = NoReturn
    /\ fetched = NoFetch
    /\ memo = [c \in Collectors |-> << >>]
    /\ InitKeys
    /\ InitLife

\* Session.from_api_data of the i-th session record of the source
SessionOfRecordOp(i) ==
    /\ ret' = NormReturn("Session", api.sessions[i],
                         SessionFromApiData(api.sessions[i]),
                         SessionFromApiData(SessionToDict(
                             SessionFromApiData(api.sessions[i]))))
    /\ UNCHANGED <<api, cache_enabled, _cache, reqs, fetched, memo, keyVars, lifeVars>>

\* Driver.from_api_data of the i-th driver record of the source
DriverBack(d) ==
    IF Raised(d) THEN None ELSE DriverFromApiData(DriverToDict(d))
DriverOfRecordOp(i) ==
    /\ ret' = NormReturn("Driver", api.drivers[i],
                         DriverFromApiData(api.drivers[i]),
                         DriverBack(DriverFromApiData(api.drivers[i])))
    /\ UNCHANGED <<api, cache_enabled, _cache, reqs, fetched, memo, keyVars, lifeVars>>

\* Position.from_api_data of the i-th position record of the source
PositionOfRecordOp(i) ==
    /\ ret' = NormReturn("Position", api.position[i],
                         PositionFromApiData(api.position[i]),
                         PositionBack(PositionFromApiData(api.position[i])))
    /\ UNCHANGED <<api, cache_enabled, _cache, reqs, fetched, memo, keyVars, lifeVars>>

NextFields ==
    \/ \E i \in 1..Len(api.sessions) : SessionOfRecordOp(i)
    \/ \E i \in 1..Len(api.drivers) : DriverOfRecordOp(i)
    \/ \E i \in 1..Len(api.position) : PositionOfRecordOp(i)

SpecFields == InitFields /\ [][NextFields]_vars

(***************************************************************************)
(* Reading the last call of a record normalizer                            *)
(***************************************************************************)
Normalized(cls) == ret.op = "from_api_data" /\ ret.cls = cls
Accepted == ret.op = "from_api_data" /\ ret.raised = None
\* The timestamp text of a raw record, None when it has none
DateText(raw, field) == GetOpt(raw, field)
\* A text that no parse attempt accepts
Malformed(text) == text # None /\ text.zone = "?"
\* A text that names its UTC offset, and the instant it denotes
Zoned(text) == text # None /\ text.zone \in {"Z", "+00:00", "+01:00", "-01:00"}
Numeric(text) == text # None /\ text.zone \in {"+00:00", "+01:00", "-01:00"}
OffsetOf(zone) ==
    IF zone = "+01:00" THEN 3600 ELSE IF zone = "-01:00" THEN 0 - 3600 ELSE 0
Instant(text) == text.wall - OffsetOf(text.zone)
\* The two timestamp texts of the last two Position.from_api_data calls, both
\* zoned and both accepted
TwoZoned ==
    /\ Normalized("Position") /\ ret.raised = None
    /\ ret.prev # None /\ ret.prev[1].value # None
    /\ Zoned(DateText(ret.raw, "date")) /\ Zoned(DateText(ret.prev[1].raw, "date"))
TextNow == DateText(ret.raw, "date")
TextBefore == DateText(ret.prev[1].raw, "date")
DateNow == ret.value[1].date
DateBefore == ret.prev[1].value[1].date

(***************************************************************************)
(* C17: for Session, Driver and Position and every raw record r the        *)
(* normalizer accepts, from_api_data(to_dict(from_api_data(r))) equals     *)
(* from_api_data(r) field for field.                                       *)
(***************************************************************************)
C17_RoundTrip ==
    Accepted => ret.back = ret.value

C17_Witness ==
    /\ Normalized("Session") /\ ret.raised = None
    /\ DateText(ret.raw, "date_start") = [wall |-> 0, zone |-> "Z"]
    /\ ret.value[1].date_start = [wall |-> 0, tz |-> "+00:00"]
    /\ ret.back = ret.value
    /\ ret.prev # None /\ ret.prev[1].value # None
    /\ "date_start" \notin DOMAIN ret.prev[1].raw
    /\ ret.prev[1].value[1].session_name = ""

(***************************************************************************)
(* C18: Position.from_api_data normalizes a text with a Z suffix and a     *)
(* text with a numeric UTC offset to the same value whenever the two       *)
(* denote the same instant, and two texts that denote different instants   *)
(* never to the same value.                                                *)
(***************************************************************************)
C18_SameInstantSameValue ==
    TwoZoned =>
        /\ (/\ HasZ(TextNow) /\ Numeric(TextBefore)
            /\ Instant(TextNow) = Instant(TextBefore)) => DateNow = DateBefore
        /\ Instant(TextNow) # Instant(TextBefore) => DateNow # DateBefore

(***************************************************************************)
(* C19: Position.from_api_data of a timestamp text that neither parse      *)
(* attempt accepts raises and gives no Position, and the error leaves      *)
(* PositionCollector.collect and collect_race_data uncaught.               *)
(***************************************************************************)
FetchedMalformed ==
    \E i \in 1..Len(FetchedPositions) : Malformed(DateText(FetchedPositions[i], "date"))
CollectedMalformed ==
    /\ ret.op = "collect" /\ ret.collector = "PositionCollector"
    /\ \E i \in 1..Len(ListOf(ret.data)) :
           Malformed(DateText(ListOf(ret.data)[i], "date"))

C19_MalformedRaises ==
    /\ (Normalized("Position") /\ Malformed(DateText(ret.raw, "date")))
          => (ret.raised = Some("ValueError") /\ ret.value = None)
    /\ CollectedMalformed => (ret.raised = Some("ValueError") /\ ret.df = << >>)
    /\ (ret.op = "collect_race_data" /\ FetchedMalformed)
          => (ret.raised = Some("ValueError") /\ ret.rows = << >>)

C19_Witness ==
    /\ ret.op = "collect_race_data" /\ FetchedMalformed
    /\ Len(FetchedPositions) = 2
    /\ ~Malformed(DateText(FetchedPositions[1], "date"))
    /\ ret.raised = Some("ValueError")

(***************************************************************************)
(* C20: Session.from_api_data of a date_start or date_end text that cannot *)
(* be parsed raises a parsing error; it gives no Session whose timestamp   *)
(* is absent.                                                              *)
(***************************************************************************)
C20_SessionDateRaises ==
    (/\ Normalized("Session")
     /\ (Malformed(DateText(ret.raw, "date_start"))
            \/ Malformed(DateText(ret.raw, "date_end"))))
        => (ret.raised # None /\ ret.value = None)

(***************************************************************************)
(* C21: from_api_data of a raw record that lacks any of its fields returns *)
(* an entity without raising; every missing string field of the entity is  *)
(* the empty string and every missing optional field is None.              *)
(***************************************************************************)
Lacking(fields) == fields[ret.cls] \ DOMAIN ret.raw

C21_MissingFieldsDefaulted ==
    ret.op = "from_api_data" =>
        /\ ret.raised = None
        /\ \A f \in Lacking(StringFields) : ret.value[1][f] = ""
        /\ \A f \in Lacking(OptionalFields) : ret.value[1][f] = None

C21_Witness ==
    /\ Normalized("Driver") /\ ret.raised = None
    /\ Lacking(StringFields) = {"team_name", "full_name"}
    /\ Lacking(OptionalFields) = {}
    /\ ret.value[1].team_name = "" /\ ret.value[1].full_name = ""
    /\ ret.value[1].first_name = "Lewis"

(***************************************************************************)
(* C23: for a session with at least one driver, get_teams_summary returns, *)
(* without raising, one row per distinct (team_name, team_colour), whose    *)
(* driver_count is the number of the team's drivers.                       *)
(***************************************************************************)
SummarisedDrivers ==
    IF ret.op = "get_teams_summary" THEN ListOf(ret.data) ELSE << >>
TeamsOf(drivers) ==
    {<<drivers[i].team_name, drivers[i].team_colour>> : i \in 1..Len(drivers)}
DriversOfTeam(drivers, team) ==
    {i \in 1..Len(drivers) : <<drivers[i].team_name, drivers[i].team_colour>> = team}

C23_TeamsSummary ==
    (ret.op = "get_teams_summary" /\ SummarisedDrivers # << >>) =>
        /\ ret.raised = None
        /\ {<<row.team_name, row.team_colour>> : row \in ret.value}
              = TeamsOf(SummarisedDrivers)
        /\ Cardinality(ret.value) = Cardinality(TeamsOf(SummarisedDrivers))
        /\ \A row \in ret.value :
              row.driver_count =
                  Cardinality(DriversOfTeam(SummarisedDrivers,
                                            <<row.team_name, row.team_colour>>))

(***************************************************************************)
(* C24: the position collector offers a consistency analysis: for each     *)
(* driver with recorded ranks it gives a dispersion index of that driver's *)
(* rank history, lower meaning more consistent, and returns the drivers    *)
(* ranked ascending by the index (most consistent first), without raising. *)
(***************************************************************************)
RankedDrivers(session_key) ==
    {api.position[i].driver_number : i \in
        {j \in 1..Len(api.position) : api.position[j].session_key = session_key}}

C24_ConsistencyAnalysis ==
    ret.op = "get_consistency_analysis" =>
        /\ ret.raised = None
        /\ {ret.value[i].driver_number : i \in 1..Len(ret.value)}
               = RankedDrivers(ret.session_key)
        /\ \A i \in 1..Len(ret.value) - 1 :
               ret.value[i].consistency_index <= ret.value[i + 1].consistency_index

(***************************************************************************)
(* C26: a request through a collector's dispatch for a resource name       *)
(* outside sessions, drivers, position, laps, meetings is a logged hard    *)
(* error: no client method is invoked, an error is logged, the caller gets *)
(* an error rather than an ordinary empty result, and nothing is stored in *)
(* the cache for it.                                                       *)
(***************************************************************************)
Unsupported == ret.op = "_make_cached_request" /\ ret.endpoint \notin EndpointMethods

C26_UnsupportedIsHardError ==
    Unsupported =>
        /\ reqs = << >>
        /\ \E i \in 1..Len(ret.logged) :
              ret.logged[i].level = "error" /\ ret.logged[i].endpoint = ret.endpoint
        /\ ret.raised # None
        /\ _cache[ret.collector] = ret.cache_before

(***************************************************************************)
(* C29: a failed fetch is never memoized.  When the fetch client answers   *)
(* None for a collect, the collector's cache has no entry for the          *)
(* parameters afterwards, a collect with the same parameters that follows  *)
(* it invokes the fetch client again, and every key the cache holds is one *)
(* a response that was not None came back for.                             *)
(***************************************************************************)
FailedCollect == ret.op = "collect" /\ ret.data = None /\ reqs # << >>

C29_FailureNotMemoized ==
    /\ FailedCollect => ret.cache_key \notin DOMAIN _cache[ret.collector]
    /\ (ret.op = "collect" /\ ret.after_failure) => reqs # << >>
    /\ \A cls \in Collectors : DOMAIN _cache[cls] \subseteq DOMAIN memo[cls]

C29_Witness ==
    /\ cache_enabled
    /\ ret.op = "collect" /\ ret.after_failure
    /\ reqs # << >> /\ ret.data # None /\ ret.data[1] # << >>

(***************************************************************************)
(* C30: on a collector constructed with cache_enabled=True, after any      *)
(* collect, clear_cache and get_cache_stats calls, get_cache_stats reports *)
(* cache_enabled true and entries_count equal to the number of distinct    *)
(* parameter sets collected with a response that was not None since the    *)
(* last clear_cache (zero right after construction or clear_cache); on one *)
(* constructed with cache_enabled=False it reports cache_enabled false and *)
(* every collect invokes the fetch client.                                 *)
(***************************************************************************)
C30_CacheStats ==
    /\ ret.op = "get_cache_stats" =>
          IF cache_enabled
          THEN /\ ret.stats.cache_enabled
               /\ ret.stats.entries_count = Cardinality(DOMAIN memo[ret.collector])
          ELSE ~ret.stats.cache_enabled
    /\ (ret.op = "collect" /\ ~cache_enabled) => reqs # << >>

(***************************************************************************)
(* C28: collect_race_data queries the data source in the order session,    *)
(* drivers, positions and stops at the first empty stage: when the session *)
(* is absent no drivers and no position request is made, and when the      *)
(* driver set is empty no position request is made.                        *)
(***************************************************************************)
Stage(endpoint) ==
    CASE endpoint = "sessions" -> 1 [] endpoint = "drivers" -> 2
      [] endpoint = "position" -> 3 [] OTHER -> 0
Requested == {reqs[i].endpoint : i \in 1..Len(reqs)}

C28_StagesInOrder ==
    ret.op = "collect_race_data" =>
        /\ \A i \in 1..Len(reqs) : Stage(reqs[i].endpoint) > 0
        /\ \A i \in 1..Len(reqs) - 1 :
               Stage(reqs[i].endpoint) < Stage(reqs[i + 1].endpoint)
        /\ FetchedSessions = << >> => Requested \subseteq {"sessions"}
        /\ FetchedDrivers = << >> => "position" \notin Requested

C28_Witness ==
    /\ ret.op = "collect_race_data"
    /\ FetchedSessions # << >> /\ FetchedDrivers = << >>
    /\ [i \in 1..Len(reqs) |-> reqs[i].endpoint] = <<"sessions", "drivers">>

(***************************************************************************)
(* Construction and release: a client of the caller, collectors that       *)
(* borrow it or construct their own, and the F1DataCollector with its      *)
(* lazily created collectors, closed explicitly or by a `with` block.  No  *)
(* collect runs here, so every cache stays empty.                          *)
(***************************************************************************)
\* The client the caller constructs, the collectors it constructs, the
\* F1DataCollector and the attributes that hold its collectors
CallerClient == "OpenF1Client"
Standalone == {"SessionCollector", "PositionCollector"}
Facade == "F1DataCollector"
SubOrder == <<"_session_collector", "_driver_collector", "_position_collector">>
SubCollectors == {SubOrder[i] : i \in 1..Len(SubOrder)}
ClassOf(id) ==
    CASE id = "_session_collector" -> "SessionCollector"
      [] id = "_driver_collector" -> "DriverCollector"
      [] id = "_position_collector" -> "PositionCollector"
      [] OTHER -> id

Put(f, k, v) == [x \in DOMAIN f \cup {k} |-> IF x = k THEN v ELSE f[x]]

\* OpenF1Client.__init__: self.session = requests.Session()
NewSession == [open |-> TRUE, closed_by |-> {}]

\* OpenF1Client.close, called by `by`: self.session.close()
ClientClosed(h, client, by) ==
    [h EXCEPT ![client] = [open |-> FALSE, closed_by |-> @.closed_by \cup {by}]]

\* BaseCollector.__init__ of collector id, given None or a client: the fields
\* client and _owns_client (a client the collector constructs is named after
\* the collector), and the sessions there are afterwards
CollectorFields(id, given) ==
    [client |-> IF given # None THEN given[1] ELSE id, _owns_client |-> given = None]
CollectorSessions(h, id, given) ==
    IF given # None THEN h ELSE Put(h, id, NewSession)

\* BaseCollector.close without the look at _owns_client
BaseCloseAnyClient(h, o, id) == ClientClosed(h, o[id].client, id)
\* BaseCollector.close of collector id: the sessions afterwards
BaseClose(h, o, id) ==
    IF o[id]._owns_client THEN ClientClosed(h, o[id].client, id) ELSE h

\* F1DataCollector.close: each collector that was created, then the client
RECURSIVE SubsClosed(_, _, _)
SubsClosed(h, o, i) ==
    IF i > Len(SubOrder) THEN h
    ELSE SubsClosed(IF SubOrder[i] \in DOMAIN o THEN BaseClose(h, o, SubOrder[i]) ELSE h,
                    o, i + 1)
FacadeClose(h, o) == ClientClosed(SubsClosed(h, o, 1), o[Facade].client, Facade)

\* obj.close()
Close(h, o, id) ==
    IF id = CallerClient THEN ClientClosed(h, id, id)
    ELSE IF id = Facade THEN FacadeClose(h, o)
    ELSE BaseClose(h, o, id)

\* The collectors whose close the close of id runs, its own included
ClosedWith(o, id) ==
    IF id = CallerClient THEN {}
    ELSE IF id = Facade THEN SubCollectors \cap DOMAIN o
    ELSE {id}

\* __exit__ that closes only when the block raised nothing
ExitUnlessRaised(h, o, id, exc) ==
    IF exc # None THEN [http |-> h, calls |-> << >>, raised |-> exc]
    ELSE [http |-> Close(h, o, id), calls |-> <<"close">>, raised |-> exc]
\* __exit__(exc_type, exc_val, exc_tb) of any of the three classes:
\* self.close(), and None returned, so that the exception goes on
Exit(h, o, id, exc) ==
    [http |-> Close(h, o, id), calls |-> <<"close">>, raised |-> exc]

\* How control leaves a `with` block, and the exception __exit__ is handed
Leavings == {"end", "return", "raise"}
ExcOf(how) == IF how = "raise" THEN Some("RuntimeError") ELSE None

Constructed == DOMAIN objs \cup (DOMAIN http \cap {CallerClient})

InitClose ==
    /\ api = NoApi
    /\ cache_enabled \in BOOLEAN
    /\ _cache = [c \in Collectors |-> << >>]
    /\ reqs = << >>
    /\ ret = NoReturn
    /\ fetched = NoFetch
    /\ memo = [c \in Collectors |-> << >>]
    /\ InitKeys
    /\ InitLife

LifeStep(op, id) ==
    /\ reqs' = << >>
    /\ ret' = [op |-> op, object |-> id, raised |-> None]
    /\ UNCHANGED <<api, cache_enabled, fetched, memo, keyVars, call>>

\* client = OpenF1Client()
NewClientOp ==
    /\ CallerClient \notin DOMAIN http
    /\ http' = Put(http, CallerClient, NewSession)
    /\ LifeStep("__init__", CallerClient)
    /\ UNCHANGED <<_cache, objs, block>>

\* cls(client, cache_enabled) when lend, cls(cache_enabled=cache_enabled) otherwise
NewCollectorOp(cls, lend) ==
    /\ cls \notin DOMAIN objs
    /\ lend => CallerClient \in DOMAIN http
    /\ objs' = Put(objs, cls,
                   CollectorFields(cls, IF lend THEN Some(CallerClient) ELSE None))
    /\ http' = CollectorSessions(http, cls, IF lend THEN Some(CallerClient) ELSE None)
    /\ LifeStep("__init__", cls)
    /\ UNCHANGED <<_cache, block>>

\* F1DataCollector(cache_enabled)
NewFacadeOp ==
    /\ Facade \notin DOMAIN objs
    /\ objs' = Put(objs, Facade, [client |-> Facade])
    /\ http' = Put(http, Facade, NewSession)
    /\ LifeStep("__init__", Facade)
    /\ UNCHANGED <<_cache, block>>

\* collector.session_collector / driver_collector / position_collector: the
\* collector is created over the client of the F1DataCollector when the
\* attribute is None
SubCollectorOp(sub) ==
    /\ Facade \in DOMAIN objs
    /\ objs' = IF sub \in DOMAIN objs THEN objs
               ELSE Put(objs, sub, CollectorFields(sub, Some(objs[Facade].client)))
    /\ LifeStep("property", sub)
    /\ UNCHANGED <<_cache, http, block>>

\* The caches after the close of id: `if self._cache: self._cache.clear()`
CachesClosed(caches, o, id) ==
    [c \in DOMAIN caches |->
        IF c \in {ClassOf(x) : x \in ClosedWith(o, id)}
        THEN ClearedCache(caches[c]) ELSE caches[c]]

\* obj.close()
CloseOp(id) ==
    /\ id \in Constructed
    /\ http' = Close(http, objs, id)
    /\ _cache' = CachesClosed(_cache, objs, id)
    /\ LifeStep("close", id)
    /\ UNCHANGED <<objs, block>>

\* with obj: (one block per run)
EnterOp(id) ==
    /\ block.at = "outside"
    /\ id \in Constructed
    /\ block' = [at |-> "inside", subject |-> id]
    /\ LifeStep("__enter__", id)
    /\ UNCHANGED <<_cache, http, objs>>

\* Control leaves the block: __exit__ runs
ExitStep(how, e) ==
    /\ http' = e.http
    /\ block' = [at |-> "left", subject |-> block.subject, how |-> how,
                 calls |-> e.calls, raised |-> e.raised]
    /\ reqs' = << >>
    /\ ret' = [op |-> "__exit__", object |-> block.subject, raised |-> e.raised]
    /\ UNCHANGED <<api, cache_enabled, fetched, memo, keyVars, call, objs>>
ExitOp(how) ==
    /\ block.at = "inside"
    /\ _cache' = CachesClosed(_cache, objs, block.subject)
    /\ ExitStep(how, Exit(http, objs, block.subject, ExcOf(how)))

NextClose ==
    \/ NewClientOp
    \/ \E cls \in Standalone, lend \in BOOLEAN : NewCollectorOp(cls, lend)
    \/ NewFacadeOp
    \/ \E sub \in SubCollectors : SubCollectorOp(sub)
    \/ \E id \in Standalone \cup {Facade, CallerClient} : CloseOp(id)
    \/ \E id \in Standalone \cup {Facade, CallerClient} : EnterOp(id)
    \/ \E how \in Leavings : ExitOp(how)

SpecClose == InitClose /\ [][NextClose]_vars

(***************************************************************************)
(* OpenF1Client._make_request step by step: the attempts of one call, the  *)
(* waits between them and its return.  Every HTTP attempt ends (it has a   *)
(* timeout) and every sleep ends, so both are taken fairly.                *)
(***************************************************************************)
MaxRetries == 3
\* max_retries: int = 3
DefaultMaxRetries == 3

\* `if attempt < max_retries` in the place of `max_retries - 1`
MoreAttemptsOffByOne(attempt, max_retries) == attempt < max_retries
\* `if attempt < max_retries - 1`: the failed attempt was not the last
MoreAttempts(attempt, max_retries) == attempt < max_retries - 1

\* wait_time = 2 ** attempt
WaitTime(attempt) == 2 ^ attempt

\* `for attempt in range(max_retries)` entered with the value `attempt`: the
\* next attempt, or the end of the loop and of the function, which returns None
Iteration(c, attempt) ==
    IF attempt < c.max_retries
    THEN [c EXCEPT !.at = "attempt", !.attempt = attempt]
    ELSE [c EXCEPT !.at = "done", !.result = None]

\* One pass through the loop body: the response's data returned, or the
\* RequestException caught
Attempted(c, source, ok) ==
    IF ok
    THEN [c EXCEPT !.at = "done", !.outcomes = Append(@, "ok"),
                   !.result = Some(Select(source, c.endpoint, c.params))]
    ELSE IF MoreAttempts(c.attempt, c.max_retries)
    THEN [c EXCEPT !.at = "sleep", !.outcomes = Append(@, "failed"),
                   !.slept = Append(@, WaitTime(c.attempt))]
    ELSE [c EXCEPT !.at = "done", !.outcomes = Append(@, "failed"),
                   !.result = None]

InitRetry ==
    /\ api \in [sessions : SessionLists, drivers : {<<DriverRaw(1), DriverRaw(44)>>},
                 position : {<< >>}]
    /\ cache_enabled = TRUE
    /\ _cache = [c \in Collectors |-> << >>]
    /\ reqs = << >>
    /\ ret = NoReturn
    /\ fetched = NoFetch
    /\ memo = [c \in Collectors |-> << >>]
    /\ InitKeys
    /\ InitLife

RetryUnchanged ==
    UNCHANGED <<api, cache_enabled, _cache, reqs, ret, fetched, memo, keyVars,
                http, objs, block>>

\* client._make_request(endpoint, {"session_key": session_key}, max_retries)
MakeRequestOp(endpoint, session_key, max_retries) ==
    /\ call.at \in {"idle", "done"}
    /\ call' = Iteration([at |-> "idle", endpoint |-> endpoint,
                          params |-> SessionParams(session_key, None),
                          max_retries |-> max_retries, attempt |-> 0,
                          outcomes |-> << >>, slept |-> << >>, result |-> None], 0)
    /\ RetryUnchanged

\* client.get_sessions(session_key=...) and its like: max_retries is the default
GetOp(endpoint, session_key) == MakeRequestOp(endpoint, session_key, DefaultMaxRetries)

\* self.session.get(...) answers, or raises a RequestException
AttemptOp(ok) ==
    /\ call.at = "attempt"
    /\ call' = Attempted(call, api, ok)
    /\ RetryUnchanged

\* time.sleep(wait_time) returns
SleepOp ==
    /\ call.at = "sleep"
    /\ call' = Iteration(call, call.attempt + 1)
    /\ RetryUnchanged

NextRetry ==
    \/ \E endpoint \in EndpointMethods, session_key \in SessionKeys :
          \/ \E max_retries \in 0..MaxRetries :
                MakeRequestOp(endpoint, session_key, max_retries)
          \/ GetOp(endpoint, session_key)
    \/ \E ok \in BOOLEAN : AttemptOp(ok)
    \/ SleepOp

SpecRetry ==
    InitRetry /\ [][NextRetry]_vars
        /\ WF_vars(\E ok \in BOOLEAN : AttemptOp(ok)) /\ WF_vars(SleepOp)

(***************************************************************************)
(* Reading the release of an object                                        *)
(***************************************************************************)
Released == ret.op \in {"close", "__exit__"}
Borrowing(id) == id \in DOMAIN objs /\ id # Facade /\ ~objs[id]._owns_client
Owning(id) == id \in DOMAIN objs /\ id # Facade /\ objs[id]._owns_client
\* The clients whose HTTP session the object id is responsible for
OwnedClients(id) ==
    IF id = CallerClient THEN {id}
    ELSE IF id = Facade \/ objs[id]._owns_client THEN {objs[id].client}
    ELSE {}

(***************************************************************************)
(* C22: client ownership.  The close of a collector that was given its     *)
(* client by the caller leaves that client open (the collector never calls *)
(* the client's close), the close of a collector that constructed its own  *)
(* client closes it, and after F1DataCollector.close, whichever of its     *)
(* collectors were created, its one client is closed and none of its       *)
(* collectors closed it.                                                   *)
(***************************************************************************)
C22_ClientOwnership ==
    /\ \A id \in DOMAIN objs :
          Borrowing(id) => id \notin http[objs[id].client].closed_by
    /\ (Released /\ Borrowing(ret.object)) =>
          (http[objs[ret.object].client].closed_by = {}
              => http[objs[ret.object].client].open)
    /\ (Released /\ Owning(ret.object)) =>
          (~http[objs[ret.object].client].open
              /\ ret.object \in http[objs[ret.object].client].closed_by)
    /\ (Released /\ ret.object = Facade) =>
          (~http[objs[Facade].client].open
              /\ http[objs[Facade].client].closed_by = {Facade})

C22_Witness ==
    /\ ret.op = "close" /\ Borrowing(ret.object) /\ ret.object \in Standalone
    /\ http[CallerClient].open
    /\ Cardinality(SubCollectors \cap DOMAIN objs) = 2
    /\ ~http[objs[Facade].client].open
    /\ \E id \in Standalone : Owning(id) /\ ~http[id].open

(***************************************************************************)
(* C27: scoped release.  Whenever control has left a `with` block over an  *)
(* OpenF1Client, a collector or an F1DataCollector, at its end, by an      *)
(* early return or by an exception raised inside, close has been called    *)
(* and the HTTP session of every client the object owns is closed; the     *)
(* exception, if there was one, still propagates.                          *)
(***************************************************************************)
C27_ScopedRelease ==
    block.at = "left" =>
        /\ block.calls = <<"close">>
        /\ \A c \in OwnedClients(block.subject) : ~http[c].open
        /\ block.raised = ExcOf(block.how)

C27_Witness ==
    /\ block.at = "left" /\ block.how = "raise" /\ block.raised = Some("RuntimeError")
    /\ block.subject = Facade /\ "_position_collector" \in DOMAIN objs
    /\ ~http[objs[Facade].client].open
    /\ ret.op = "__exit__"

(***************************************************************************)
(* C25: a call of _make_request makes at most max_retries HTTP attempts    *)
(* and none after the first that succeeds, whose data it returns; after    *)
(* the k-th failed attempt (k from 0) it waits 2^k seconds, except after   *)
(* the last; after max_retries failed attempts it returns None; and it     *)
(* returns, whatever the attempts' outcomes are.                           *)
(***************************************************************************)
Running == call.at \in {"attempt", "sleep"}
Failures == Cardinality({i \in 1..Len(call.outcomes) : call.outcomes[i] = "failed"})

RetrySafety ==
    call.at # "idle" =>
        /\ Len(call.outcomes) <= call.max_retries
        /\ \A i \in 1..Len(call.outcomes) - 1 : call.outcomes[i] = "failed"
        /\ Len(call.slept) =
              Cardinality({i \in 1..Len(call.outcomes) :
                              call.outcomes[i] = "failed" /\ i < call.max_retries})
        /\ \A k \in 1..Len(call.slept) : call.slept[k] = 2 ^ (k - 1)
        /\ (call.at = "done" /\ Failures = Len(call.outcomes)) =>
              (call.result = None /\ Failures = call.max_retries)
        /\ (call.at = "done" /\ Failures < Len(call.outcomes)) =>
              call.result = Some(Select(api, call.endpoint, call.params))
        /\ Running => Failures = Len(call.outcomes)

C25_BoundedRetries == []RetrySafety /\ (Running ~> call.at = "done")

C25_Witness ==
    /\ call.at = "done" /\ call.max_retries = DefaultMaxRetries
    /\ call.outcomes = <<"failed", "failed", "failed">>
    /\ call.slept = <<1, 2>> /\ call.result = None

====
